---- MODULE Spec2Model ----
(***************************************************************************)
(* Model of the solar-roof-verify detection pipeline:                      *)
(*   - src/src/lib/aiDetection.ts        runSolarDetection and             *)
(*                                        generateMockBboxString           *)
(*   - src/src/components/SolarDetectionOverlay.tsx  parseDetectionBoxes   *)
(*   - src/src/pages/Apply.tsx, src/unnamed/part_000  the application      *)
(*                                        workflow around the engine       *)
(*   - src/src/components/SatelliteImageFetcher.tsx  parseCSV and          *)
(*                                        exportApplicationsCSV; fetchImage*)
(*                                        and handleZoomChange             *)
(*   - src/src/lib/applicationService.ts  createApplication,               *)
(*                                        processApplication,              *)
(*                                        reviewApplication                *)
(*   - src/src/pages/OfficerDashboard.tsx  handleRunAI, handleReview       *)
(*   - src/src/contexts/AuthContext.tsx   signUp and the                   *)
(*                                        onAuthStateChanged listener      *)
(*                                                                         *)
(* Numbers.  A value returned by Math.random() is modelled as an integer   *)
(* r in 0..RandDen-1 standing for the real r/RandDen.  Real-valued locals  *)
(* are kept as integer numerators over a denominator stated next to each   *)
(* operator, so that Math.floor, Math.round and toFixed are exact integer  *)
(* computations.  Strings are sequences of one-character strings, so that  *)
(* serialising and parsing are computed character by character.            *)
(***************************************************************************)
EXTENDS Integers, Sequences, FiniteSets, TLC

\* One call of runSolarDetection and the overlay that renders its result.
VARIABLES pc, sampleId, lat, lon, delay, result, emitted, boxes

\* Several calls of runSolarDetection in flight at once.
VARIABLES calls

\* The application workflow: the 'applications' collection of the database,
\* the csvData state of the Apply page, and the calls of runSolarDetection
\* that processApplication has made and that have not returned.
VARIABLES applications, csvData, inflight

\* The CSV export: the applications handed to exportApplicationsCSV and the
\* csvContent it built.
VARIABLES exportApps, csvContent

\* The application service and the officer dashboard: the nodes stored under
\* 'applications', the calls of processApplication under way, the number of
\* calls started so far, and each officer's dashboard state.
VARIABLES db, runs, started, officers

\* Sign-up: the profiles stored under 'users', the userProfile state of the
\* AuthProvider, the call of signUp and the onAuthStateChanged listener.
VARIABLES usersDb, userProfile, signUpCall, listenerCall

\* SatelliteImageFetcher: its props latitude and longitude, its state zoom,
\* imageUrl and loading, the fetches under way and the number started.
VARIABLES fetcherLat, fetcherLon, zoom, imageUrl, loading, fetches, fetchCount

engineVars == <<pc, sampleId, lat, lon, delay, result, emitted, boxes>>
concurrentVars == <<calls>>
workflowVars == <<applications, csvData, inflight>>
exportVars == <<exportApps, csvContent>>
serviceVars == <<db, runs, started, officers>>
authVars == <<usersDb, userProfile, signUpCall, listenerCall>>
fetcherVars == <<fetcherLat, fetcherLon, zoom, imageUrl, loading, fetches,
                 fetchCount>>

vars == <<engineVars, concurrentVars, workflowVars, exportVars,
         serviceVars, authVars, fetcherVars>>

(***************************************************************************)
(* Bounds of the model.                                                    *)
(***************************************************************************)
\* Math.random() takes the values 0/RandDen .. (RandDen-1)/RandDen.
RandDen == 1000

\* Number of ';'-separated entries in the strings handed to the overlay
\* when it is checked on its own.
MaxEntries == 3

\* Number of calls of runSolarDetection in flight at once.
MaxCalls == 2

\* Number of applications the database holds.
MaxApplications == 2

\* Number of applications stored under 'applications' when the service and
\* the officer dashboard are checked.
MaxStored == 2

\* Number of calls of processApplication started in one behaviour.
MaxRuns == 2

\* Number of fetches the SatelliteImageFetcher starts in one behaviour.
MaxFetches == 3

(***************************************************************************)
(* Arithmetic of the JavaScript built-ins.                                 *)
(***************************************************************************)
\* Math.floor(num/den), den > 0.
MathFloor(num, den) == num \div den

\* Math.round(num/den), den > 0: the nearest integer, ties towards +infinity.
MathRound(num, den) == (2 * num + den) \div (2 * den)

\* Math.ceil(num/den), den > 0.
MathCeil(num, den) == -((-num) \div den)

\* Math.ceil(Math.sqrt(n)) for an integer n >= 0.
CeilSqrt(n) == CHOOSE c \in 0..n : c * c >= n /\ (c = 0 \/ (c - 1) * (c - 1) < n)

(***************************************************************************)
(* Strings as sequences of characters.                                     *)
(***************************************************************************)
DigitChars == <<"0", "1", "2", "3", "4", "5", "6", "7", "8", "9">>

IsDigit(c) == c \in {"0", "1", "2", "3", "4", "5", "6", "7", "8", "9"}

DigitValue(c) == (CHOOSE d \in 1..10 : DigitChars[d] = c) - 1

RECURSIVE NatToStr(_)
\* String(n) for an integer n >= 0.
NatToStr(n) ==
  IF n < 10 THEN <<DigitChars[n + 1]>>
  ELSE NatToStr(n \div 10) \o <<DigitChars[(n % 10) + 1]>>

\* `${i}` for an integer i: a '-' sign precedes a negative number.
IntToStr(i) == IF i < 0 THEN <<"-">> \o NatToStr(-i) ELSE NatToStr(i)

\* (num/den).toFixed(2) for num/den >= 0: integer part, '.', two digits.
ToFixed2(num, den) ==
  LET h == MathRound(100 * num, den)
  IN  NatToStr(h \div 100) \o <<".">> \o
      <<DigitChars[((h % 100) \div 10) + 1], DigitChars[(h % 10) + 1]>>

RECURSIVE Join(_, _)
\* parts.join(sep)
Join(parts, sep) ==
  IF parts = <<>> THEN <<>>
  ELSE IF Len(parts) = 1 THEN parts[1]
  ELSE parts[1] \o <<sep>> \o Join(Tail(parts), sep)

(***************************************************************************)
(* src/src/lib/aiDetection.ts: runSolarDetection, the scoring part.        *)
(***************************************************************************)
\* const avgPanelArea = 1.7, in tenths of a square metre.
avgPanelAreaTenths == 17

\* const wattPerSqm = 180
wattPerSqm == 180

\* Denominator of the confidence numerators below: confidence = num/ConfDen.
ConfDen == 100 * RandDen

\* const hasSolar = Math.random() > 0.3
HasSolar(r) == 10 * r > 3 * RandDen

\* Confidence that starts at 0.55 in the first branch.
ConfidenceFromHalf(hasSolar, r) ==
  IF hasSolar THEN 55 * RandDen + 24 * r ELSE 10 * RandDen + 30 * r

\* Confidence with a factor of 0.25 in the first branch.
ConfidenceWide(hasSolar, r) ==
  IF hasSolar THEN 75 * RandDen + 25 * r ELSE 10 * RandDen + 30 * r

\* const confidence = hasSolar ? 0.75 + Math.random() * 0.24
\*                             : 0.1 + Math.random() * 0.3     (over ConfDen)
Confidence(hasSolar, r) ==
  IF hasSolar THEN 75 * RandDen + 24 * r ELSE 10 * RandDen + 30 * r

\* PanelCount with 21 in place of 20.
PanelCountTo24(hasSolar, r) ==
  IF hasSolar THEN MathFloor(4 * RandDen + 21 * r, RandDen) ELSE 0

\* PanelCount without the test of hasSolar.
PanelCountUnguarded(hasSolar, r) == MathFloor(4 * RandDen + 20 * r, RandDen)

\* const panelCount = hasSolar ? Math.floor(4 + Math.random() * 20) : 0
PanelCount(hasSolar, r) ==
  IF hasSolar THEN MathFloor(4 * RandDen + 20 * r, RandDen) ELSE 0

\* const pvArea = panelCount * avgPanelArea            (over 10)
PvArea(panelCount) == panelCount * avgPanelAreaTenths

\* Capacity with 190 W per square metre.
CapacityAt190(pvArea) == pvArea * 190

\* const capacity = (pvArea * wattPerSqm) / 1000       (over 10 * 1000)
Capacity(pvArea) == pvArea * wattPerSqm

\* QcBucket whose last branch leaves qcStatus at its initial 'VERIFIABLE'.
QcBucketStatusKept(confidence, coin) ==
  IF confidence * 100 > 85 * ConfDen THEN
    [notes  |-> <<"clear roof view", "distinct module grid detected",
                  "mounting shadows visible">>,
     status |-> "VERIFIABLE"]
  ELSE IF confidence * 10 > 7 * ConfDen THEN
    [notes  |-> <<"moderate image quality", "panel array partially visible">>,
     status |-> "VERIFIABLE"]
  ELSE IF confidence * 10 > 5 * ConfDen THEN
    [notes  |-> <<"low resolution imagery", "partial occlusion detected">>,
     status |-> IF 2 * coin > RandDen THEN "VERIFIABLE" ELSE "NOT_VERIFIABLE"]
  ELSE
    [notes  |-> <<"insufficient image quality", "heavy shadow/cloud cover">>,
     status |-> "VERIFIABLE"]

\* The if / else-if chain on the unrounded confidence: the notes pushed and
\* the status assigned by the branch taken.  coin is the Math.random() of
\* the third branch.
QcBucket(confidence, coin) ==
  IF confidence * 100 > 85 * ConfDen THEN
    [notes  |-> <<"clear roof view", "distinct module grid detected",
                  "mounting shadows visible">>,
     status |-> "VERIFIABLE"]
  ELSE IF confidence * 10 > 7 * ConfDen THEN
    [notes  |-> <<"moderate image quality", "panel array partially visible">>,
     status |-> "VERIFIABLE"]
  ELSE IF confidence * 10 > 5 * ConfDen THEN
    [notes  |-> <<"low resolution imagery", "partial occlusion detected">>,
     status |-> IF 2 * coin > RandDen THEN "VERIFIABLE" ELSE "NOT_VERIFIABLE"]
  ELSE
    [notes  |-> <<"insufficient image quality", "heavy shadow/cloud cover">>,
     status |-> "NOT_VERIFIABLE"]

\* LargeInstallation with panelCount >= 10.
LargeInstallationFromTen(hasSolar, panelCount, qcNotes) ==
  IF hasSolar /\ panelCount >= 10
  THEN Append(qcNotes, "large installation detected")
  ELSE qcNotes

\* if (hasSolar && panelCount > 10) qcNotes.push('large installation detected')
LargeInstallation(hasSolar, panelCount, qcNotes) ==
  IF hasSolar /\ panelCount > 10
  THEN Append(qcNotes, "large installation detected")
  ELSE qcNotes

(***************************************************************************)
(* src/src/lib/aiDetection.ts: generateMockBboxString.                     *)
(***************************************************************************)
\* The values Math.random() returns in the course of one call of
\* generateMockBboxString (or of parseDetectionBoxes), in the order the call
\* asks for them: Tape(t, i) is the i-th of them (i from 0).  A tape is named
\* by the way its values vary from one draw to the next.
TapeIds == {"low", "high", "alternate", "ramp"}

Tape(t, i) ==
  CASE t = "low"       -> 0
    [] t = "high"      -> RandDen - 1
    [] t = "alternate" -> IF i % 2 = 0 THEN 0 ELSE RandDen - 1
    [] t = "ramp"      -> (i * 137 + 61) % RandDen

\* const gridCols = Math.ceil(Math.sqrt(panelCount))
GridCols(panelCount) == CeilSqrt(panelCount)

\* GridRows with Math.floor.
GridRowsFloor(panelCount, gridCols) == MathFloor(panelCount, gridCols)

\* const gridRows = Math.ceil(panelCount / gridCols)
GridRows(panelCount, gridCols) == MathCeil(panelCount, gridCols)

\* The six values drawn once per call (draws 0..5), as numerators over
\* RandDen: startX, startY = 80 + r*100; panelWidth = 60 + r*40;
\* panelHeight = 35 + r*25; gapX = 8 + r*12; gapY = 6 + r*10.
Layout(t) ==
  [startX      |-> 80 * RandDen + 100 * Tape(t, 0),
   startY      |-> 80 * RandDen + 100 * Tape(t, 1),
   panelWidth  |-> 60 * RandDen + 40 * Tape(t, 2),
   panelHeight |-> 35 * RandDen + 25 * Tape(t, 3),
   gapX        |-> 8 * RandDen + 12 * Tape(t, 4),
   gapY        |-> 6 * RandDen + 10 * Tape(t, 5)]

\* Box with row and col taken for each other in x and y.
BoxTransposed(g, row, col, count, t) ==
  [x |-> MathFloor(g.startX + row * (g.panelWidth + g.gapX)
                   + 8 * Tape(t, 6 + 5 * count) - 4 * RandDen, RandDen),
   y |-> MathFloor(g.startY + col * (g.panelHeight + g.gapY)
                   + 6 * Tape(t, 7 + 5 * count) - 3 * RandDen, RandDen),
   w |-> MathFloor(g.panelWidth + 10 * Tape(t, 8 + 5 * count) - 5 * RandDen,
                   RandDen),
   h |-> MathFloor(g.panelHeight + 8 * Tape(t, 9 + 5 * count) - 4 * RandDen,
                   RandDen),
   conf |-> 82 * RandDen + 17 * Tape(t, 10 + 5 * count)]

\* The body of the inner loop for the cell (row, col), the count-th box
\* (draws 6 + 5*count .. 10 + 5*count): x, y, w, h are Math.floor of the
\* grid position or size plus the jitter (Math.random() - 0.5) * 8, 6, 10, 8;
\* conf is 0.82 + Math.random() * 0.17 as a numerator over ConfDen, before
\* toFixed(2).
Box(g, row, col, count, t) ==
  [x |-> MathFloor(g.startX + col * (g.panelWidth + g.gapX)
                   + 8 * Tape(t, 6 + 5 * count) - 4 * RandDen, RandDen),
   y |-> MathFloor(g.startY + row * (g.panelHeight + g.gapY)
                   + 6 * Tape(t, 7 + 5 * count) - 3 * RandDen, RandDen),
   w |-> MathFloor(g.panelWidth + 10 * Tape(t, 8 + 5 * count) - 5 * RandDen,
                   RandDen),
   h |-> MathFloor(g.panelHeight + 8 * Tape(t, 9 + 5 * count) - 4 * RandDen,
                   RandDen),
   conf |-> 82 * RandDen + 17 * Tape(t, 10 + 5 * count)]

RECURSIVE BoxLoop(_, _, _, _, _, _, _, _, _)
\* for (row = 0; row < gridRows && count < panelCount; row++)
\*   for (col = 0; col < gridCols && count < panelCount; col++)
\*     { ...; boxes.push(...); count++ }
BoxLoop(row, col, count, acc, panelCount, gridCols, gridRows, g, t) ==
  IF ~(row < gridRows /\ count < panelCount) THEN acc
  ELSE IF col < gridCols /\ count < panelCount
       THEN BoxLoop(row, col + 1, count + 1,
                    Append(acc, Box(g, row, col, count, t)),
                    panelCount, gridCols, gridRows, g, t)
       ELSE BoxLoop(row + 1, 0, count, acc, panelCount, gridCols, gridRows, g, t)

\* The boxes the loop pushes for panelCount, before they are written out.
GenerateBoxes(panelCount, t) ==
  LET gridCols == GridCols(panelCount)
      gridRows == GridRows(panelCount, gridCols)
  IN  BoxLoop(0, 0, 0, <<>>, panelCount, gridCols, gridRows, Layout(t), t)

\* BoxString that writes h before w.
BoxStringSwapped(b) ==
  <<"[">> \o IntToStr(b.x) \o <<",">> \o IntToStr(b.y) \o <<",">> \o
  IntToStr(b.h) \o <<",">> \o IntToStr(b.w) \o <<",">> \o
  ToFixed2(b.conf, ConfDen) \o <<"]">>

\* `[${x},${y},${w},${h},${conf}]` with conf = (...).toFixed(2)
BoxString(b) ==
  <<"[">> \o IntToStr(b.x) \o <<",">> \o IntToStr(b.y) \o <<",">> \o
  IntToStr(b.w) \o <<",">> \o IntToStr(b.h) \o <<",">> \o
  ToFixed2(b.conf, ConfDen) \o <<"]">>

\* GenerateMockBboxString that ends every box with ';'.
GenerateMockBboxStringTrailing(panelCount, t) ==
  LET bs == GenerateBoxes(panelCount, t)
  IN  Join([k \in 1..Len(bs) |-> BoxString(bs[k])], ";") \o <<";">>

\* generateMockBboxString(panelCount): return boxes.join(';')
GenerateMockBboxString(panelCount, t) ==
  LET bs == GenerateBoxes(panelCount, t)
  IN  Join([k \in 1..Len(bs) |-> BoxString(bs[k])], ";")

(***************************************************************************)
(* src/src/components/SolarDetectionOverlay.tsx: parseDetectionBoxes.      *)
(***************************************************************************)
\* The character at position i, or "" past either end of the string.
CharAt(s, i) == IF i \in 1..Len(s) THEN s[i] ELSE ""

\* s.split(sep) for a one-character separator: the pieces of s between
\* consecutive occurrences of sep, so that "" gives the one entry "" and k
\* separators give k + 1 entries.
Split(s, sep) ==
  LET seps  == {i \in 1..Len(s) : s[i] = sep}
      cut   == [k \in 0..(Cardinality(seps) + 1) |->
                  IF k = 0 THEN 0
                  ELSE IF k = Cardinality(seps) + 1 THEN Len(s) + 1
                  ELSE CHOOSE p \in seps : Cardinality({q \in seps : q < p}) = k - 1]
  IN  [k \in 1..(Cardinality(seps) + 1) |-> SubSeq(s, cut[k - 1] + 1, cut[k] - 1)]

RECURSIVE DigitRun(_, _)
\* \d+ is greedy: the number of digits of s from position i on.
DigitRun(s, i) == IF IsDigit(CharAt(s, i)) THEN 1 + DigitRun(s, i + 1) ELSE 0

RECURSIVE StrToNat(_)
\* parseInt of a string of digits.
StrToNat(ds) ==
  IF ds = <<>> THEN 0
  ELSE 10 * StrToNat(SubSeq(ds, 1, Len(ds) - 1)) + DigitValue(ds[Len(ds)])

RECURSIVE Pow10(_)
Pow10(n) == IF n = 0 THEN 1 ELSE 10 * Pow10(n - 1)

\* parseFloat of digits or digits '.' digits, as the fraction num/den.
ParseFloat(ds) ==
  LET n == DigitRun(ds, 1)
  IN  IF n = Len(ds) THEN [num |-> StrToNat(ds), den |-> 1]
      ELSE LET frac == SubSeq(ds, n + 2, Len(ds))
           IN  [num |-> StrToNat(SubSeq(ds, 1, n)) * Pow10(Len(frac))
                        + StrToNat(frac),
                den |-> Pow10(Len(frac))]

NoMatch == [matched |-> FALSE]

\* An attempt of /\[(\d+),(\d+),(\d+),(\d+)(?:,(\d+(?:\.\d+)?))?\]/ at
\* position i of s.  Every \d+ takes its whole run of digits: giving a digit
\* back never helps, since the pattern then asks for ',', '.' or ']' where a
\* digit stands.  g5 is "" when the optional group took no part (undefined
\* in JavaScript).
MatchAt(s, i) ==
  LET n1 == DigitRun(s, i + 1)
      p2 == i + 1 + n1
      n2 == DigitRun(s, p2 + 1)
      p3 == p2 + 1 + n2
      n3 == DigitRun(s, p3 + 1)
      p4 == p3 + 1 + n3
      n4 == DigitRun(s, p4 + 1)
      p5 == p4 + 1 + n4
      n5 == DigitRun(s, p5 + 1)
      p6 == p5 + 1 + n5
      n6 == DigitRun(s, p6 + 1)
      p7 == p6 + 1 + n6
      four == [matched |-> TRUE,
               g1 |-> SubSeq(s, i + 1, p2 - 1), g2 |-> SubSeq(s, p2 + 1, p3 - 1),
               g3 |-> SubSeq(s, p3 + 1, p4 - 1), g4 |-> SubSeq(s, p4 + 1, p5 - 1),
               g5 |-> <<>>]
  IN  IF ~(CharAt(s, i) = "[" /\ n1 > 0 /\ CharAt(s, p2) = "," /\ n2 > 0
           /\ CharAt(s, p3) = "," /\ n3 > 0 /\ CharAt(s, p4) = "," /\ n4 > 0)
      THEN NoMatch
      ELSE IF CharAt(s, p5) = "," /\ n5 > 0 /\ CharAt(s, p6) = "." /\ n6 > 0
              /\ CharAt(s, p7) = "]"
      THEN [four EXCEPT !.g5 = SubSeq(s, p5 + 1, p7 - 1)]
      ELSE IF CharAt(s, p5) = "," /\ n5 > 0 /\ CharAt(s, p6) = "]"
      THEN [four EXCEPT !.g5 = SubSeq(s, p5 + 1, p6 - 1)]
      ELSE IF CharAt(s, p5) = "]" THEN four
      ELSE NoMatch

RECURSIVE MatchFrom(_, _)
\* boxStr.match(regex) without the g flag: the attempt at the leftmost
\* position that succeeds, anywhere in the string.
MatchFrom(s, i) ==
  IF i > Len(s) THEN NoMatch
  ELSE LET m == MatchAt(s, i)
       IN  IF m.matched THEN m ELSE MatchFrom(s, i + 1)

Match(s) == MatchFrom(s, 1)

\* The default of a box without conf: 0.85 + Math.random() * 0.14
DefaultConfidence(r) == [num |-> 85 * RandDen + 14 * r, den |-> ConfDen]

\* DetectionBox without the default: parseFloat of the missing group.
DetectionBoxNoDefault(m, index, r) ==
  [x          |-> StrToNat(m.g1),
   y          |-> StrToNat(m.g2),
   width      |-> StrToNat(m.g3),
   height     |-> StrToNat(m.g4),
   confidence |-> ParseFloat(m.g5),
   panelId    |-> index + 1]

\* The object pushed for a matched entry; index is forEach's index (from 0).
DetectionBox(m, index, r) ==
  [x          |-> StrToNat(m.g1),
   y          |-> StrToNat(m.g2),
   width      |-> StrToNat(m.g3),
   height     |-> StrToNat(m.g4),
   confidence |-> IF m.g5 # <<>> THEN ParseFloat(m.g5) ELSE DefaultConfidence(r),
   panelId    |-> index + 1]

RECURSIVE ParseEntries(_, _, _, _, _)
\* boxStrings.forEach((boxStr, index) => { if (match) boxes.push(...) });
\* used counts the Math.random() calls made so far, t is their tape.
ParseEntries(boxStrings, index, used, acc, t) ==
  IF index >= Len(boxStrings) THEN acc
  ELSE LET m == Match(boxStrings[index + 1])
       IN  IF ~m.matched
           THEN ParseEntries(boxStrings, index + 1, used, acc, t)
           ELSE ParseEntries(boxStrings, index + 1,
                             IF m.g5 # <<>> THEN used ELSE used + 1,
                             Append(acc, DetectionBox(m, index, Tape(t, used))), t)

\* parseDetectionBoxes(bboxString)
ParseDetectionBoxes(bboxString, t) ==
  IF bboxString = <<>> THEN <<>>
  ELSE ParseEntries(Split(bboxString, ";"), 0, 0, <<>>, t)

(***************************************************************************)
(* src/src/lib/aiDetection.ts: runSolarDetection, the call as a whole.     *)
(***************************************************************************)
\* Inputs of a call.  Coordinates are in ten-thousandths of a degree.
SampleIds == {"S1", "S2"}
Lats == {129716}
Lons == {775946}

\* new Date().toISOString().split('T')[0] at the time of the call.
Today == {"2025-01-15"}

\* Values of the single Math.random() calls of runSolarDetection: both sides
\* of hasSolar's 0.3, confidences at the ends, in the middle and on both
\* sides of 0.85, the least draw for every panel count 4..23 and the
\* greatest draw.
SolarDraws == {(3 * RandDen) \div 10, (3 * RandDen) \div 10 + 1}
ConfDraws == {0, (10 * RandDen) \div 24, (10 * RandDen) \div 24 + 1,
              RandDen \div 2, RandDen - 1}
CountDraws == {MathCeil(j * RandDen, 20) : j \in 0..19} \cup {RandDen - 1}
CoinDraws == {0, RandDen - 1}
TimeDraws == {0, RandDen - 1}

\* All the draws of one call after its delay.
Draws == [solar : SolarDraws, conf : ConfDraws, count : CountDraws,
          coin : CoinDraws, tape : TapeIds, time : TimeDraws, today : Today]

\* The object returned.  confidence is in hundredths (Math.round(c*100)/100),
\* pv_area_sqm_est and capacity_kw_est are in tenths (Math.round(v*10)/10).
RunSolarDetection(id, la, lo, d) ==
  LET hasSolar   == HasSolar(d.solar)
      confidence == Confidence(hasSolar, d.conf)
      panelCount == PanelCount(hasSolar, d.count)
      pvArea     == PvArea(panelCount)
      capacity   == Capacity(pvArea)
      qc         == QcBucket(confidence, d.coin)
  IN  [sample_id          |-> id,
       lat                |-> la,
       lon                |-> lo,
       has_solar          |-> hasSolar,
       confidence         |-> MathRound(confidence * 100, ConfDen),
       panel_count_est    |-> panelCount,
       pv_area_sqm_est    |-> MathRound(pvArea * 10, 10),
       capacity_kw_est    |-> MathRound(capacity * 10, 10 * 1000),
       qc_status          |-> qc.status,
       qc_notes           |-> LargeInstallation(hasSolar, panelCount, qc.notes),
       bbox_or_mask       |-> IF hasSolar
                              THEN GenerateMockBboxString(panelCount, d.tape)
                              ELSE <<>>,
       image_metadata     |-> [source |-> "Satellite/Manual Upload",
                               capture_date |-> d.today],
       processing_time_ms |-> MathFloor(2000 * RandDen + 3000 * d.time, RandDen)]

\* The value of result before a call has returned.
NoResult ==
  [sample_id |-> "", lat |-> 0, lon |-> 0, has_solar |-> FALSE,
   confidence |-> 0, panel_count_est |-> 0, pv_area_sqm_est |-> 0,
   capacity_kw_est |-> 0, qc_status |-> "NOT_VERIFIABLE", qc_notes |-> <<>>,
   bbox_or_mask |-> <<>>,
   image_metadata |-> [source |-> "", capture_date |-> ""],
   processing_time_ms |-> 0]

\* The calls that may be in flight together.
CallIds == 1..MaxCalls

\* The draws of a call that has not resolved yet.
NoDraws ==
  [solar |-> 0, conf |-> 0, count |-> 0, coin |-> 0, tape |-> "low",
   time |-> 0, today |-> ""]

\* A call that has not been made.
IdleCall ==
  [pc |-> "idle", sampleId |-> "", lat |-> 0, lon |-> 0, draws |-> NoDraws,
   result |-> NoResult]

\* No call of the concurrent callers has been made.
ConcurrentIdle == calls = [c \in CallIds |-> IdleCall]

\* The database is empty and no CSV file has been loaded.
WorkflowIdle ==
  /\ applications = <<>>
  /\ csvData = <<>>
  /\ inflight = {}

\* Nothing has been exported.
ExportIdle ==
  /\ exportApps = <<>>
  /\ csvContent = <<>>

\* A database node that holds nothing: snapshot.exists() is false for it.
Null == [k \in {} |-> ""]

\* The string ids of the officers signed in to the dashboard.
OfficerIds == {"officer1", "officer2"}

\* The keys push() hands out under 'applications'.
AppKeys == 1..MaxStored

\* No application selected: selectedApp is null.
NoSelection == [id |-> 0, status |-> ""]

\* No application is stored, no call is under way and every officer's
\* dashboard is in its initial state.
ServiceIdle ==
  /\ db = [k \in AppKeys |-> Null]
  /\ runs = {}
  /\ started = 0
  /\ officers = [o \in OfficerIds |->
                   [selectedApp |-> NoSelection, processingId |-> 0,
                    reviewingId |-> 0]]

\* No profile is stored, nobody is signed in and signUp has not been called.
AuthIdle ==
  /\ usersDb = Null
  /\ userProfile = Null
  /\ signUpCall = [pc |-> "idle"]
  /\ listenerCall = [pc |-> "idle"]

\* The fetcher as it is mounted without coordinates: zoom 18, no image.
FetcherIdle ==
  /\ fetcherLat = 0
  /\ fetcherLon = 0
  /\ zoom = 18
  /\ imageUrl = Null
  /\ loading = FALSE
  /\ fetches = {}
  /\ fetchCount = 0

Init ==
  /\ pc = "idle"
  /\ sampleId = ""
  /\ lat = 0
  /\ lon = 0
  /\ delay = 0
  /\ result = NoResult
  /\ emitted = <<>>
  /\ boxes = <<>>
  /\ ConcurrentIdle
  /\ WorkflowIdle
  /\ ExportIdle
  /\ ServiceIdle
  /\ AuthIdle
  /\ FetcherIdle

\* runSolarDetection(sampleId, lat, lon) up to its await: the timer is set to
\* 2000 + Math.random() * 3000 ms.
Invoke ==
  /\ pc = "idle"
  /\ \E id \in SampleIds, la \in Lats, lo \in Lons, r \in TimeDraws :
       /\ sampleId' = id
       /\ lat' = la
       /\ lon' = lo
       /\ delay' = MathFloor(2000 * RandDen + 3000 * r, RandDen)
  /\ pc' = "waiting"
  /\ UNCHANGED <<result, emitted, boxes>>
  /\ UNCHANGED <<concurrentVars, workflowVars, exportVars>>
  /\ UNCHANGED <<serviceVars, authVars, fetcherVars>>

\* Resolve for a call whose promise is rejected when the timer fires.
ResolveRejected ==
  /\ pc = "waiting"
  /\ pc' = "rejected"
  /\ UNCHANGED <<sampleId, lat, lon, delay, result, emitted, boxes>>
  /\ UNCHANGED <<concurrentVars, workflowVars, exportVars>>
  /\ UNCHANGED <<serviceVars, authVars, fetcherVars>>

\* The rest of runSolarDetection after its await, with the draws d.
\* emitted records the boxes of the loop before they were written out.
ResolveWith(d) ==
  /\ result' = RunSolarDetection(sampleId, lat, lon, d)
  /\ emitted' = IF result'.has_solar
                THEN GenerateBoxes(result'.panel_count_est, d.tape)
                ELSE <<>>
  /\ pc' = "done"
  /\ UNCHANGED <<sampleId, lat, lon, delay, boxes>>
  /\ UNCHANGED <<concurrentVars, workflowVars, exportVars>>
  /\ UNCHANGED <<serviceVars, authVars, fetcherVars>>

\* The timer fires and the rest of runSolarDetection runs to its return.
Resolve ==
  /\ pc = "waiting"
  /\ \E d \in Draws : ResolveWith(d)

\* SolarDetectionOverlay renders with aiResult = result:
\* boxes = aiResult?.bbox_or_mask ? parseDetectionBoxes(...) : []
Render ==
  /\ pc = "done"
  /\ \E t \in TapeIds :
       boxes' = IF result.bbox_or_mask # <<>>
                THEN ParseDetectionBoxes(result.bbox_or_mask, t)
                ELSE <<>>
  /\ pc' = "rendered"
  /\ UNCHANGED <<sampleId, lat, lon, delay, result, emitted>>
  /\ UNCHANGED <<concurrentVars, workflowVars, exportVars>>
  /\ UNCHANGED <<serviceVars, authVars, fetcherVars>>

Next == Invoke \/ Resolve \/ Render

Spec == Init /\ [][Next]_vars

(***************************************************************************)
(* The overlay on its own: SolarDetectionOverlay is rendered with an       *)
(* aiResult whose bbox_or_mask is any string of up to MaxEntries entries.  *)
(***************************************************************************)
\* [x,y,w,h]: a box without a confidence component.
EntryNoConf(x, y, w, h) ==
  <<"[">> \o IntToStr(x) \o <<",">> \o IntToStr(y) \o <<",">> \o
  IntToStr(w) \o <<",">> \o IntToStr(h) \o <<"]">>

\* Entries a stored bbox_or_mask may hold: boxes without conf (the first is
\* the example of the About page), boxes with conf, and entries that are not
\* boxes (empty, too few numbers, a signed number, text before a box).
OverlayEntries ==
  { EntryNoConf(120, 150, 80, 45),
    EntryNoConf(0, 7, 10, 3),
    BoxString([x |-> 89, y |-> 96, w |-> 69, h |-> 45, conf |-> 89 * RandDen]),
    <<"[", "5", ",", "6", ",", "7", ",", "8", ",", "1", "]">>,
    <<>>,
    <<"[", "1", ",", "2", ",", "3", "]">>,
    EntryNoConf(-5, 2, 3, 4),
    <<"#">> \o EntryNoConf(1, 2, 3, 4) }

RECURSIVE EntryLists(_)
\* The sequences of 1..n entries.
EntryLists(n) ==
  IF n = 0 THEN {}
  ELSE {<<e>> : e \in OverlayEntries} \cup EntryLists(n - 1) \cup
       {Append(l, e) : l \in EntryLists(n - 1), e \in OverlayEntries}

OverlayInputs == {<<>>} \cup {Join(l, ";") : l \in EntryLists(MaxEntries)}

InitOverlay ==
  /\ pc = "done"
  /\ sampleId = "S1"
  /\ lat \in Lats
  /\ lon \in Lons
  /\ delay = 0
  /\ \E str \in OverlayInputs : result = [NoResult EXCEPT !.bbox_or_mask = str]
  /\ emitted = <<>>
  /\ boxes = <<>>
  /\ ConcurrentIdle
  /\ WorkflowIdle
  /\ ExportIdle
  /\ ServiceIdle
  /\ AuthIdle
  /\ FetcherIdle

SpecOverlay == InitOverlay /\ [][Render]_vars

(***************************************************************************)
(* The call under the event loop: a timer that has been set fires, so a    *)
(* call that waits is resumed.                                             *)
(***************************************************************************)
\* The draws that are all the least of their sets.
LeastDraws ==
  [solar |-> (3 * RandDen) \div 10, conf |-> 0, count |-> 0, coin |-> 0,
   tape |-> "low", time |-> 0, today |-> "2025-01-15"]

\* The timer of a waiting call fires and the call runs on.  Every step of
\* Resolve ends the wait, so the step is stated for one outcome of the
\* draws: it is enabled exactly when Resolve is, and any step of Resolve
\* disables it.
TimerFires == pc = "waiting" /\ ResolveWith(LeastDraws)

SpecLive == Spec /\ WF_vars(TimerFires)

(***************************************************************************)
(* The engine called with any arguments: runSolarDetection has no guard on *)
(* sampleId, lat or lon.                                                   *)
(***************************************************************************)
\* Arguments of a call: one well-formed triple, and triples with an empty
\* sample id, a latitude outside [-90, 90] on either side or a longitude
\* outside [-180, 180].
AnyCalls ==
  { [sampleId |-> "S1", lat |-> 129716, lon |-> 775946],
    [sampleId |-> "",   lat |-> 129716, lon |-> 775946],
    [sampleId |-> "S1", lat |-> 910000, lon |-> 775946],
    [sampleId |-> "S1", lat |-> -900001, lon |-> 775946],
    [sampleId |-> "S1", lat |-> 129716, lon |-> 1800001] }

\* runSolarDetection(sampleId, lat, lon) up to its await, for any arguments.
InvokeAny ==
  /\ pc = "idle"
  /\ \E c \in AnyCalls :
       /\ sampleId' = c.sampleId
       /\ lat' = c.lat
       /\ lon' = c.lon
  /\ delay' = MathFloor(2000 * RandDen, RandDen)
  /\ pc' = "waiting"
  /\ UNCHANGED <<result, emitted, boxes>>
  /\ UNCHANGED <<concurrentVars, workflowVars, exportVars>>
  /\ UNCHANGED <<serviceVars, authVars, fetcherVars>>

SpecAnyInput == Init /\ [][InvokeAny \/ Resolve]_vars

(***************************************************************************)
(* Several calls in flight.  Each call of runSolarDetection has its own    *)
(* parameters and locals; calls interleave at the await of line 31.        *)
(***************************************************************************)
\* The draws of the calls in flight: both outcomes of hasSolar, the least
\* and the greatest confidence and processing time.
ConcurrentDraws ==
  {d \in Draws : /\ d.conf \in {0, RandDen - 1}
                 /\ d.count = 0
                 /\ d.coin = 0
                 /\ d.tape = "low"}

\* Call c of runSolarDetection(sampleId, lat, lon) up to its await.
InvokeCall(c) ==
  /\ calls[c].pc = "idle"
  /\ \E id \in SampleIds, la \in Lats, lo \in Lons :
       calls' = [calls EXCEPT ![c] = [IdleCall EXCEPT !.pc = "waiting",
                                                      !.sampleId = id,
                                                      !.lat = la,
                                                      !.lon = lo]]
  /\ UNCHANGED <<engineVars, workflowVars, exportVars>>
  /\ UNCHANGED <<serviceVars, authVars, fetcherVars>>

\* ResolveCall where the result is one object of the module that every call
\* fills in and returns.
ResolveCallShared(c) ==
  /\ calls[c].pc = "waiting"
  /\ \E d \in ConcurrentDraws :
       LET r == RunSolarDetection(calls[c].sampleId, calls[c].lat,
                                  calls[c].lon, d)
       IN  calls' = [k \in CallIds |->
                       IF k = c
                       THEN [calls[c] EXCEPT !.pc = "done", !.draws = d,
                                             !.result = r]
                       ELSE IF calls[k].pc = "done"
                            THEN [calls[k] EXCEPT !.result = r]
                            ELSE calls[k]]
  /\ UNCHANGED <<engineVars, workflowVars, exportVars>>
  /\ UNCHANGED <<serviceVars, authVars, fetcherVars>>

\* The timer of call c fires and the call runs to its return: the result is
\* a new object built from the call's parameters and its own draws, which
\* draws records.
ResolveCall(c) ==
  /\ calls[c].pc = "waiting"
  /\ \E d \in ConcurrentDraws :
       calls' = [calls EXCEPT ![c] =
                   [calls[c] EXCEPT
                      !.pc = "done",
                      !.draws = d,
                      !.result = RunSolarDetection(calls[c].sampleId,
                                                   calls[c].lat,
                                                   calls[c].lon, d)]]
  /\ UNCHANGED <<engineVars, workflowVars, exportVars>>
  /\ UNCHANGED <<serviceVars, authVars, fetcherVars>>

NextConcurrent == \E c \in CallIds : InvokeCall(c) \/ ResolveCall(c)

SpecConcurrent == Init /\ [][NextConcurrent]_vars

(***************************************************************************)
(* The application workflow.                                               *)
(*   - src/src/pages/Apply.tsx            the form, the CSV upload and the *)
(*                                        two submissions                  *)
(*   - src/src/components/SatelliteImageFetcher.tsx   parseCSV             *)
(*   - src/unnamed/part_000               createApplication and            *)
(*                                        processApplication               *)
(* Latitudes and longitudes are integers in ten-thousandths of a degree,   *)
(* as in the calls above; the texts below carry at most four decimals.     *)
(* Of an application and of a CSV row the fields kept are the ones that    *)
(* processApplication reads or writes, and address and region.             *)
(***************************************************************************)
\* The least and the greatest element of a non-empty set of integers.
LeastOf(S) == CHOOSE x \in S : \A y \in S : x <= y
GreatestOf(S) == CHOOSE x \in S : \A y \in S : y <= x

\* The white space String.prototype.trim removes that the texts below use.
WhiteSpace == {" ", "\t", "\r", "\n"}

\* s.trim()
Trim(s) ==
  LET keep == {i \in 1..Len(s) : s[i] \notin WhiteSpace}
  IN  IF keep = {} THEN <<>> ELSE SubSeq(s, LeastOf(keep), GreatestOf(keep))

\* s without its leading white space, which parseFloat skips.
TrimStart(s) ==
  LET keep == {i \in 1..Len(s) : s[i] \notin WhiteSpace}
  IN  IF keep = {} THEN <<>> ELSE SubSeq(s, LeastOf(keep), Len(s))

UpperChars ==
  <<"A", "B", "C", "D", "E", "F", "G", "H", "I", "J", "K", "L", "M",
    "N", "O", "P", "Q", "R", "S", "T", "U", "V", "W", "X", "Y", "Z">>

LowerChars ==
  <<"a", "b", "c", "d", "e", "f", "g", "h", "i", "j", "k", "l", "m",
    "n", "o", "p", "q", "r", "s", "t", "u", "v", "w", "x", "y", "z">>

\* s.toLowerCase()
ToLowerCase(s) ==
  [i \in 1..Len(s) |->
     IF \E k \in 1..26 : UpperChars[k] = s[i]
     THEN LowerChars[CHOOSE k \in 1..26 : UpperChars[k] = s[i]]
     ELSE s[i]]

\* h.trim().toLowerCase().replace(/[^a-z0-9]/g, '_')
HeaderKey(h) ==
  LET t == ToLowerCase(Trim(h))
  IN  [i \in 1..Len(t) |->
         IF IsDigit(t[i]) \/ (\E k \in 1..26 : LowerChars[k] = t[i])
         THEN t[i] ELSE "_"]

\* v.replace(/^"|"$/g, ''): a quote at the start and a quote at the end are
\* removed; a lone quote is the one at the start.
StripQuotes(v) ==
  LET a == IF v # <<>> /\ v[1] = "\"" THEN 2 ELSE 1
      b == IF Len(v) >= a /\ v[Len(v)] = "\"" THEN Len(v) - 1 ELSE Len(v)
  IN  SubSeq(v, a, b)

\* parseFloat(s) for an optional sign, digits and an optional fraction, in
\* ten-thousandths; nan when no digit is found.  What follows the number is
\* ignored, as parseFloat does.
ParseFloatNumber(s) ==
  LET t    == TrimStart(s)
      p    == IF CharAt(t, 1) \in {"+", "-"} THEN 2 ELSE 1
      n    == DigitRun(t, p)
      f    == IF CharAt(t, p + n) = "." THEN DigitRun(t, p + n + 1) ELSE 0
      g    == IF f < 4 THEN f ELSE 4
      frac == StrToNat(SubSeq(t, p + n + 1, p + n + g)) * Pow10(4 - g)
      abs  == StrToNat(SubSeq(t, p, p + n - 1)) * 10000 + frac
  IN  IF n = 0 /\ f = 0 THEN [nan |-> TRUE, val |-> 0]
      ELSE [nan |-> FALSE, val |-> IF CharAt(t, 1) = "-" THEN -abs ELSE abs]

\* parseFloat(s) || 0
ParseFloatOrZero(s) ==
  IF ParseFloatNumber(s).nan THEN 0 ELSE ParseFloatNumber(s).val

\* a || b for strings: the empty string is falsy.
Or(a, b) == IF a # <<>> THEN a ELSE b

\* row[key] after headers.forEach: the value under the last header equal to
\* key; '' when the line has no value there, and undefined, which is falsy
\* as '' is, when no header equals key.
Cell(headers, values, key) ==
  LET idx == {k \in 1..Len(headers) : headers[k] = key}
  IN  IF idx = {} \/ GreatestOf(idx) > Len(values) THEN <<>>
      ELSE values[GreatestOf(idx)]

\* The CSVRow pushed for line i, where now is the text of Date.now().
CsvRow(headers, line, i, now) ==
  LET cells  == Split(line, ",")
      values == [k \in 1..Len(cells) |-> StripQuotes(Trim(cells[k]))]
      at(key) == Cell(headers, values, key)
  IN  [sampleId  |-> Or(at(<<"s", "a", "m", "p", "l", "e", "_", "i", "d">>),
                      Or(at(<<"s", "a", "m", "p", "l", "e", "i", "d">>),
                      Or(at(<<"i", "d">>),
                         <<"B", "A", "T", "C", "H", "-">> \o now \o <<"-">> \o NatToStr(i)))),
       latitude  |-> ParseFloatOrZero(Or(at(<<"l", "a", "t", "i", "t", "u", "d", "e">>),
                                         at(<<"l", "a", "t">>))),
       longitude |-> ParseFloatOrZero(Or(at(<<"l", "o", "n", "g", "i", "t", "u", "d", "e">>),
                                      Or(at(<<"l", "o", "n">>),
                                         at(<<"l", "n", "g">>)))),
       address   |-> at(<<"a", "d", "d", "r", "e", "s", "s">>),
       region    |-> Or(at(<<"r", "e", "g", "i", "o", "n">>),
                      Or(at(<<"s", "t", "a", "t", "e">>),
                         <<"O", "t", "h", "e", "r">>))]

\* parseCSV(csvText)
ParseCSV(csvText, now) ==
  LET lines == SelectSeq(Split(csvText, "\n"), LAMBDA l : Trim(l) # <<>>)
  IN  IF Len(lines) < 2 THEN <<>>
      ELSE LET cells0  == Split(lines[1], ",")
               headers == [k \in 1..Len(cells0) |-> HeaderKey(cells0[k])]
           IN  [i \in 1..(Len(lines) - 1) |->
                  CsvRow(headers, lines[i + 1], i, now)]

\* CSV files a user uploads.
\*   sample_id,latitude,longitude,region
\*   B1,12.9716,77.5946,Goa
CsvPlain ==
  <<"s", "a", "m", "p", "l", "e", "_", "i", "d", ",", "l", "a", "t", "i",
      "t", "u", "d", "e", ",", "l", "o", "n", "g", "i", "t", "u", "d", "e",
      ",", "r", "e", "g", "i", "o", "n", "\n", "B", "1", ",", "1", "2",
      ".", "9", "7", "1", "6", ",", "7", "7", ".", "5", "9", "4", "6", ",",
      "G", "o", "a">>

\* Other header names, and a latitude of 95 degrees:
\*   Sample ID,Lat,Lng,State
\*   B2,95,77.5946,Goa
CsvOutOfRange ==
  <<"S", "a", "m", "p", "l", "e", " ", "I", "D", ",", "L", "a", "t", ",",
      "L", "n", "g", ",", "S", "t", "a", "t", "e", "\n", "B", "2", ",",
      "9", "5", ",", "7", "7", ".", "5", "9", "4", "6", ",", "G", "o", "a">>

\* Quoted and padded cells, a longitude of 200 degrees, a blank line and a
\* line with an empty id and a latitude that is no number:
\*   id,latitude,longitude
\*   "B3", -12.5 ,200
\*
\*   ,abc,10
CsvQuoted ==
  <<"i", "d", ",", "l", "a", "t", "i", "t", "u", "d", "e", ",", "l", "o",
      "n", "g", "i", "t", "u", "d", "e", "\n", "\"", "B", "3", "\"", ",",
      " ", "-", "1", "2", ".", "5", " ", ",", "2", "0", "0", "\n", "\n",
      ",", "a", "b", "c", ",", "1", "0", "\n">>

\* A header line alone:
\*   sample_id,latitude
CsvHeaderOnly ==
  <<"s", "a", "m", "p", "l", "e", "_", "i", "d", ",", "l", "a", "t", "i",
      "t", "u", "d", "e">>

CsvTexts == {CsvPlain, CsvOutOfRange, CsvQuoted, CsvHeaderOnly}

\* The text of Date.now() at an upload.
NowTexts == {<<"1", "7", "3", "6", "8", "9", "9", "2", "0", "0", "0", "0", "0">>}

\* What the form holds at a submission: a well-formed application, one on
\* the bounds of both ranges, and ones the schema refuses (a latitude of 95
\* degrees, a latitude that is no number, an empty sample id, an empty
\* region, a longitude of -180.5 degrees).
FormInputs ==
  { [sampleId |-> <<"F", "1">>, latitude |-> <<"1", "2", ".", "9", "7", "1", "6">>,
     longitude |-> <<"7", "7", ".", "5", "9", "4", "6">>, address |-> <<>>,
     region |-> <<"G", "o", "a">>],
    [sampleId |-> <<"F", "2">>, latitude |-> <<"-", "9", "0">>,
     longitude |-> <<"1", "8", "0">>, address |-> <<>>,
     region |-> <<"G", "o", "a">>],
    [sampleId |-> <<"F", "1">>, latitude |-> <<"9", "5">>,
     longitude |-> <<"7", "7", ".", "5", "9", "4", "6">>, address |-> <<>>,
     region |-> <<"G", "o", "a">>],
    [sampleId |-> <<"F", "1">>, latitude |-> <<"a", "b", "c">>,
     longitude |-> <<"7", "7", ".", "5", "9", "4", "6">>, address |-> <<>>,
     region |-> <<"G", "o", "a">>],
    [sampleId |-> <<>>, latitude |-> <<"1", "2", ".", "9", "7", "1", "6">>,
     longitude |-> <<"7", "7", ".", "5", "9", "4", "6">>, address |-> <<>>,
     region |-> <<"G", "o", "a">>],
    [sampleId |-> <<"F", "1">>, latitude |-> <<"1", "2", ".", "9", "7", "1", "6">>,
     longitude |-> <<"7", "7", ".", "5", "9", "4", "6">>, address |-> <<>>,
     region |-> <<>>],
    [sampleId |-> <<"F", "1">>, latitude |-> <<"1", "2", ".", "9", "7", "1", "6">>,
     longitude |-> <<"-", "1", "8", "0", ".", "5">>, address |-> <<>>,
     region |-> <<"G", "o", "a">>] }

\* validateForm(): applicationSchema.parse of the form with latitude and
\* longitude put through parseFloat; z.number() refuses NaN.
ValidateForm(formData) ==
  LET latitude  == ParseFloatNumber(formData.latitude)
      longitude == ParseFloatNumber(formData.longitude)
  IN  /\ Len(formData.sampleId) >= 1
      /\ ~latitude.nan
      /\ latitude.val >= -900000 /\ latitude.val <= 900000
      /\ ~longitude.nan
      /\ longitude.val >= -1800000 /\ longitude.val <= 1800000
      /\ Len(formData.region) >= 1

\* The object createApplication writes under a new key of 'applications'.
CreateApplication(data) ==
  [sampleId     |-> data.sampleId,
   latitude     |-> data.latitude,
   longitude    |-> data.longitude,
   address      |-> data.address,
   region       |-> data.region,
   status       |-> "pending",
   aiResult     |-> <<>>,
   officerNotes |-> <<>>]

\* createBatchApplications(userId, userName, userEmail, rows): one
\* application for every row, written as createApplication writes one.
CreateBatchApplications(rows) ==
  [k \in 1..Len(rows) |-> CreateApplication(rows[k])]

\* cleanAiResult with lat and lon taken from each other.
CleanAiResultSwapped(r, today) ==
  [r EXCEPT !.lat = r.lon, !.lon = r.lat]

\* cleanAiResult of processApplication: a copy of the result, field by
\* field, with defaults for what is missing.
CleanAiResult(r, today) ==
  [sample_id          |-> r.sample_id,
   lat                |-> r.lat,
   lon                |-> r.lon,
   has_solar          |-> r.has_solar,
   confidence         |-> r.confidence,
   panel_count_est    |-> r.panel_count_est,
   pv_area_sqm_est    |-> r.pv_area_sqm_est,
   capacity_kw_est    |-> r.capacity_kw_est,
   qc_status          |-> r.qc_status,
   qc_notes           |-> r.qc_notes,
   bbox_or_mask       |-> r.bbox_or_mask,
   image_metadata     |->
     [source       |-> IF r.image_metadata.source # ""
                       THEN r.image_metadata.source ELSE "Unknown",
      capture_date |-> IF r.image_metadata.capture_date # ""
                       THEN r.image_metadata.capture_date ELSE today],
   processing_time_ms |-> r.processing_time_ms]

\* The draws of the calls processApplication makes: both outcomes of
\* hasSolar, the least and the greatest confidence.
WorkflowDraws ==
  {d \in Draws : /\ d.conf \in {0, RandDen - 1}
                 /\ d.count = 0
                 /\ d.coin = 0
                 /\ d.tape = "low"
                 /\ d.time = 0}

\* handleSubmit and confirmSubmit up to the return of createApplication: a
\* form that validateForm accepts is stored.  processApplication(appId),
\* which confirmSubmit awaits next, is ProcessStart and ProcessFinish.
ConfirmSubmit ==
  /\ Len(applications) < MaxApplications
  /\ \E formData \in FormInputs :
       /\ ValidateForm(formData)
       /\ applications' =
            Append(applications,
                   CreateApplication(
                     [sampleId  |-> formData.sampleId,
                      latitude  |-> ParseFloatNumber(formData.latitude).val,
                      longitude |-> ParseFloatNumber(formData.longitude).val,
                      address   |-> formData.address,
                      region    |-> formData.region]))
  /\ UNCHANGED <<csvData, inflight>>
  /\ UNCHANGED <<engineVars, concurrentVars, exportVars>>
  /\ UNCHANGED <<serviceVars, authVars, fetcherVars>>

\* handleCSVUpload: reader.onload parses the file and sets csvData.
HandleCSVUpload ==
  /\ \E text \in CsvTexts, now \in NowTexts : csvData' = ParseCSV(text, now)
  /\ UNCHANGED <<applications, inflight>>
  /\ UNCHANGED <<engineVars, concurrentVars, exportVars>>
  /\ UNCHANGED <<serviceVars, authVars, fetcherVars>>

\* handleBatchSubmit up to the return of createBatchApplications; the calls
\* of processApplication for the new applications are ProcessStart and
\* ProcessFinish, and csvData is emptied.
HandleBatchSubmit ==
  /\ csvData # <<>>
  /\ Len(applications) + Len(csvData) <= MaxApplications
  /\ applications' = applications \o CreateBatchApplications(csvData)
  /\ csvData' = <<>>
  /\ UNCHANGED inflight
  /\ UNCHANGED <<engineVars, concurrentVars, exportVars>>
  /\ UNCHANGED <<serviceVars, authVars, fetcherVars>>

\* processApplication(applicationId) up to its await of runSolarDetection:
\* the application is read, its status set to 'processing', and the engine
\* called with the sampleId, latitude and longitude read.  The Apply page
\* calls it once for each application it has just created, which is the
\* one still 'pending'; calls from the officer dashboard are
\* ProcessApplicationGet below.
ProcessStart(applicationId) ==
  /\ applicationId \in 1..Len(applications)
  /\ applications[applicationId].status = "pending"
  /\ applications' =
       [applications EXCEPT ![applicationId].status = "processing"]
  /\ inflight' = inflight \cup
       {[applicationId |-> applicationId,
         sampleId |-> applications[applicationId].sampleId,
         lat |-> applications[applicationId].latitude,
         lon |-> applications[applicationId].longitude]}
  /\ UNCHANGED csvData
  /\ UNCHANGED <<engineVars, concurrentVars, exportVars>>
  /\ UNCHANGED <<serviceVars, authVars, fetcherVars>>

\* runSolarDetection returns to processApplication, which stores
\* cleanAiResult with the status 'ai_completed'.
ProcessFinish(call) ==
  /\ call \in inflight
  /\ \E d \in WorkflowDraws :
       applications' =
         [applications EXCEPT
            ![call.applicationId].status = "ai_completed",
            ![call.applicationId].aiResult =
              <<CleanAiResult(RunSolarDetection(call.sampleId, call.lat,
                                                call.lon, d), d.today)>>]
  /\ inflight' = inflight \ {call}
  /\ UNCHANGED csvData
  /\ UNCHANGED <<engineVars, concurrentVars, exportVars>>
  /\ UNCHANGED <<serviceVars, authVars, fetcherVars>>

NextWorkflow ==
  \/ ConfirmSubmit
  \/ HandleCSVUpload
  \/ HandleBatchSubmit
  \/ \E applicationId \in 1..MaxApplications : ProcessStart(applicationId)
  \/ \E call \in inflight : ProcessFinish(call)

SpecWorkflow == Init /\ [][NextWorkflow]_vars

(***************************************************************************)
(* The CSV export.                                                         *)
(*   - src/src/components/SatelliteImageFetcher.tsx  exportApplicationsCSV *)
(* Texts are sequences of characters; a number is written as String()      *)
(* writes it.  The optional fields of an application are held as the text  *)
(* they are exported as, '' when absent.                                   *)
(***************************************************************************)
RECURSIVE JoinSeq(_, _)
\* parts.join(sep) for a separator of any length.
JoinSeq(parts, sep) ==
  IF parts = <<>> THEN <<>>
  ELSE IF Len(parts) = 1 THEN parts[1]
  ELSE parts[1] \o sep \o JoinSeq(Tail(parts), sep)

RECURSIVE StripTrailingZeros(_)
StripTrailingZeros(ds) ==
  IF ds # <<>> /\ ds[Len(ds)] = "0"
  THEN StripTrailingZeros(SubSeq(ds, 1, Len(ds) - 1))
  ELSE ds

RECURSIVE PadZeros(_, _)
\* ds with zeros in front up to n digits.
PadZeros(ds, n) == IF Len(ds) >= n THEN ds ELSE PadZeros(<<"0">> \o ds, n)

\* String(v) for the number v = num / 10^digits: no fraction when it is
\* zero, no trailing zeros.
NumberToString(num, digits) ==
  LET abs  == IF num < 0 THEN -num ELSE num
      frac == StripTrailingZeros(PadZeros(NatToStr(abs % Pow10(digits)),
                                          digits))
  IN  (IF num < 0 THEN <<"-">> ELSE <<>>) \o NatToStr(abs \div Pow10(digits))
      \o (IF frac = <<>> THEN <<>> ELSE <<".">> \o frac)

\* String(b) for a boolean.
BooleanToString(b) ==
  IF b THEN <<"t", "r", "u", "e">> ELSE <<"f", "a", "l", "s", "e">>

\* `"${s.replace(/"/g, '""')}"`
Quoted(s) == <<"\"">> \o JoinSeq(Split(s, "\""), <<"\"", "\"">>) \o <<"\"">>

\* const headers
ExportHeaders ==
  << <<"S", "a", "m", "p", "l", "e", " ", "I", "D">>,
     <<"U", "s", "e", "r", " ", "N", "a", "m", "e">>,
     <<"U", "s", "e", "r", " ", "E", "m", "a", "i", "l">>,
     <<"L", "a", "t", "i", "t", "u", "d", "e">>,
     <<"L", "o", "n", "g", "i", "t", "u", "d", "e">>,
     <<"A", "d", "d", "r", "e", "s", "s">>,
     <<"R", "e", "g", "i", "o", "n">>,
     <<"I", "n", "s", "t", "a", "l", "l", "a", "t", "i", "o", "n", " ",
         "T", "y", "p", "e">>,
     <<"I", "n", "s", "t", "a", "l", "l", "a", "t", "i", "o", "n", " ",
         "D", "a", "t", "e">>,
     <<"S", "y", "s", "t", "e", "m", " ", "C", "a", "p", "a", "c", "i",
         "t", "y", " ", "(", "k", "W", ")">>,
     <<"I", "n", "s", "t", "a", "l", "l", "e", "r", " ", "C", "o", "m",
         "p", "a", "n", "y">>,
     <<"P", "a", "n", "e", "l", " ", "B", "r", "a", "n", "d">>,
     <<"I", "n", "v", "e", "r", "t", "e", "r", " ", "B", "r", "a", "n",
         "d">>,
     <<"S", "u", "b", "s", "i", "d", "y", " ", "A", "m", "o", "u", "n",
         "t">>,
     <<"E", "l", "e", "c", "t", "r", "i", "c", "i", "t", "y", " ", "P",
         "r", "o", "v", "i", "d", "e", "r">>,
     <<"S", "t", "a", "t", "u", "s">>,
     <<"S", "o", "l", "a", "r", " ", "D", "e", "t", "e", "c", "t", "e",
         "d">>,
     <<"C", "o", "n", "f", "i", "d", "e", "n", "c", "e">>,
     <<"P", "a", "n", "e", "l", " ", "C", "o", "u", "n", "t">>,
     <<"P", "V", " ", "A", "r", "e", "a", " ", "(", "s", "q", "m", ")">>,
     <<"E", "s", "t", ".", " ", "C", "a", "p", "a", "c", "i", "t", "y",
         " ", "(", "k", "W", ")">>,
     <<"Q", "C", " ", "S", "t", "a", "t", "u", "s">>,
     <<"Q", "C", " ", "N", "o", "t", "e", "s">>,
     <<"O", "f", "f", "i", "c", "e", "r", " ", "N", "o", "t", "e", "s">>,
     <<"R", "e", "v", "i", "e", "w", "e", "d", " ", "A", "t">>,
     <<"C", "r", "e", "a", "t", "e", "d", " ", "A", "t">> >>

\* The 26 values of the row of app, each as the text it is written as,
\* before any quoting.
RowValues(app) ==
  LET ai == app.aiResult
      has == ai # <<>>
  IN  << app.sampleId,
         app.userName,
         app.userEmail,
         NumberToString(app.latitude, 4),
         NumberToString(app.longitude, 4),
         app.address,
         app.region,
         app.installationType,
         app.installationDate,
         app.systemCapacity,
         app.installerCompany,
         app.panelBrand,
         app.inverterBrand,
         app.subsidyAmount,
         app.electricityProvider,
         app.status,
         IF has THEN BooleanToString(ai[1].has_solar) ELSE <<>>,
         IF has THEN NumberToString(ai[1].confidence, 2) ELSE <<>>,
         IF has THEN NumberToString(ai[1].panel_count_est, 0) ELSE <<>>,
         IF has THEN NumberToString(ai[1].pv_area_sqm_est, 1) ELSE <<>>,
         IF has THEN NumberToString(ai[1].capacity_kw_est, 1) ELSE <<>>,
         IF has THEN ai[1].qc_status ELSE <<>>,
         IF has THEN JoinSeq(ai[1].qc_notes, <<";", " ">>) ELSE <<>>,
         app.officerNotes,
         app.reviewedAt,
         app.createdAt >>

\* The row of app: the address, the QC notes and the officer notes are put
\* in quotes with their quotes doubled, every other value is written as is.
ExportRow(app) ==
  [j \in 1..26 |-> IF j \in {6, 23, 24} THEN Quoted(RowValues(app)[j])
                   ELSE RowValues(app)[j]]

\* csvContent of exportApplicationsCSV(apps)
ExportCsv(apps) ==
  Join(<<Join(ExportHeaders, ",")>> \o
       [k \in 1..Len(apps) |-> Join(ExportRow(apps[k]), ",")], "\n")

\* A stored aiResult with solar, as the export reads it.
ExportAiResult ==
  [has_solar |-> TRUE, confidence |-> 89, panel_count_est |-> 12,
   pv_area_sqm_est |-> 204, capacity_kw_est |-> 37,
   qc_status |-> <<"V", "E", "R", "I", "F", "I", "A", "B", "L", "E">>,
   qc_notes |-> << <<"c", "l", "e", "a", "r", " ", "r", "o", "o", "f", " ",
                     "v", "i", "e", "w">>,
                   <<"d", "i", "s", "t", "i", "n", "c", "t", " ", "m", "o",
                     "d", "u", "l", "e", " ", "g", "r", "i", "d", " ", "d",
                     "e", "t", "e", "c", "t", "e", "d">> >>]

\* Applications to export: sample ids, user names, addresses, regions,
\* installers and officer notes without and with ',' and '"', with and
\* without an aiResult.
ExportApplications ==
  [sampleId            : {<<"S", "1">>, <<"S", ",", "1">>},
   userName            : {<<"A", "n", "n">>, <<"D", "o", "e", ",", " ", "J", "o", "h", "n">>},
   userEmail           : {<<"a", "@", "b", ".", "i", "n">>},
   latitude            : {129716},
   longitude           : {-775000},
   address             : {<<>>, <<"1", ",", " ", "M", "a", "i", "n", " ", "S", "t">>, <<"5", "\"", " ", "p", "i", "p", "e">>},
   region              : {<<"G", "o", "a">>, <<"G", "o", "a", ",", " ", "I", "N">>},
   installationType    : {<<>>},
   installationDate    : {<<>>},
   systemCapacity      : {<<"5", ".", "5">>},
   installerCompany    : {<<>>, <<"S", "u", "n", ",", " ", "I", "n", "c">>},
   panelBrand          : {<<>>},
   inverterBrand       : {<<>>},
   subsidyAmount       : {<<>>},
   electricityProvider : {<<>>},
   status              : {<<"a", "i", "_", "c", "o", "m", "p", "l", "e", "t", "e", "d">>},
   aiResult            : {<<>>, <<ExportAiResult>>},
   officerNotes        : {<<>>, <<"o", "k", ",", " ", "\"", "s", "e", "e", "n", "\"">>},
   reviewedAt          : {<<>>},
   createdAt           : {<<"2", "0", "2", "5", "-", "0", "1", "-", "1", "5", "T", "1", "0", ":", "0", "0", ":", "0", "0", ".", "0", "0", "0", "Z">>}]

\* The officer dashboard holds the applications to export.
InitExport ==
  /\ \E app \in ExportApplications : exportApps = <<app>>
  /\ csvContent = <<>>
  /\ pc = "idle"
  /\ sampleId = ""
  /\ lat = 0
  /\ lon = 0
  /\ delay = 0
  /\ result = NoResult
  /\ emitted = <<>>
  /\ boxes = <<>>
  /\ ConcurrentIdle
  /\ WorkflowIdle
  /\ ServiceIdle
  /\ AuthIdle
  /\ FetcherIdle

\* exportApplicationsCSV(exportApps) builds csvContent.
ExportApplicationsCSV ==
  /\ csvContent = <<>>
  /\ csvContent' = ExportCsv(exportApps)
  /\ UNCHANGED exportApps
  /\ UNCHANGED <<engineVars, concurrentVars, workflowVars>>
  /\ UNCHANGED <<serviceVars, authVars, fetcherVars>>

SpecExport == InitExport /\ [][ExportApplicationsCSV]_vars


(***************************************************************************)
(* The application service and the officer dashboard                       *)
(* (src/lib/applicationService.ts, src/pages/OfficerDashboard.tsx,         *)
(* confirmSubmit of src/pages/Apply.tsx).  A node of the database is a     *)
(* function from field names to values; update() merges fields into it.    *)
(***************************************************************************)
\* snapshot.exists() of the node read.
SnapshotExists(node) == DOMAIN node # {}

\* update(ref, fields): the fields given replace those stored, the other
\* fields of the node stay, and a node that did not exist is created.
Update(node, fields) ==
  [k \in DOMAIN node \cup DOMAIN fields |->
     IF k \in DOMAIN fields THEN fields[k] ELSE node[k]]

\* The coordinates and sample ids of the applications submitted.
SubmittedData ==
  {[sampleId |-> id, latitude |-> la, longitude |-> lo] :
     id \in SampleIds, la \in Lats, lo \in Lons}

\* The application object createApplication stores (the fields the service
\* and the dashboard read afterwards).
NewApplication(data) ==
  [sampleId     |-> data.sampleId,
   latitude     |-> data.latitude,
   longitude    |-> data.longitude,
   status       |-> "pending",
   officerNotes |-> "",
   reviewedBy   |-> "",
   reviewedAt   |-> ""]

\* The key of push(): one that holds no node yet.
FreshKeys == {k \in AppKeys : ~SnapshotExists(db[k])}

\* The draws of the detection runs of processApplication: a roof with
\* panels and one without.
ServiceDraws == {d \in WorkflowDraws : d.conf = 0}

\* new Date().toISOString() at the time of a review.
ReviewTimes == {"2025-01-15T00:00:00.000Z"}

\* The notes an officer types in before a review.
ReviewNotes == {"verified"}

\* A call of processApplication(applicationId) that has just been made.
NewRun(caller, applicationId) ==
  [run |-> started + 1, caller |-> caller, applicationId |-> applicationId,
   pc |-> "get", app |-> Null, error |-> "", detection |-> FALSE]

\* The first update of processApplication.
ProcessingFields == [status |-> "processing"]

\* The last update of processApplication, with the status only.
CompletedFieldsStatusOnly(cleanAiResult) == [status |-> "ai_completed"]

\* The last update of processApplication: the status and the result in one
\* write.
CompletedFields(cleanAiResult) ==
  [status |-> "ai_completed", aiResult |-> cleanAiResult]

\* The update of reviewApplication.
ReviewFields(status, officerId, notes, now) ==
  [status       |-> status,
   officerNotes |-> notes,
   reviewedBy   |-> officerId,
   reviewedAt   |-> now]

\* app = snapshot.val(), of which processApplication reads the sampleId,
\* the latitude and the longitude.
AppRead(node) ==
  [k \in DOMAIN node \cap {"sampleId", "latitude", "longitude"} |-> node[k]]

\* processApplication after get() whatever the snapshot holds.
ProcessApplicationGetUnchecked(r) ==
  /\ r \in runs
  /\ r.pc = "get"
  /\ db' = [db EXCEPT ![r.applicationId] = Update(@, ProcessingFields)]
  /\ runs' = (runs \ {r}) \cup
       {[r EXCEPT !.pc = "detect", !.app = AppRead(db[r.applicationId]),
                  !.detection = TRUE]}
  /\ UNCHANGED <<started, officers>>
  /\ UNCHANGED <<engineVars, concurrentVars, workflowVars, exportVars>>
  /\ UNCHANGED <<authVars, fetcherVars>>

\* processApplication from the return of get() to the call of
\* runSolarDetection: a missing application throws 'Application not found';
\* otherwise the status becomes 'processing' and the detection is called
\* with what the snapshot held.
ProcessApplicationGet(r) ==
  /\ r \in runs
  /\ r.pc = "get"
  /\ IF ~SnapshotExists(db[r.applicationId])
     THEN /\ runs' = (runs \ {r}) \cup
               {[r EXCEPT !.pc = "thrown",
                          !.error = "Application not found"]}
          /\ UNCHANGED db
     ELSE /\ db' = [db EXCEPT ![r.applicationId] =
                      Update(@, ProcessingFields)]
          /\ runs' = (runs \ {r}) \cup
               {[r EXCEPT !.pc = "detect",
                          !.app = AppRead(db[r.applicationId]),
                          !.detection = TRUE]}
  /\ UNCHANGED <<started, officers>>
  /\ UNCHANGED <<engineVars, concurrentVars, workflowVars, exportVars>>
  /\ UNCHANGED <<authVars, fetcherVars>>

\* The snapshot read holds what runSolarDetection echoes into its result.
\* Without them cleanAiResult has undefined fields, which update() rejects.
HasDetectionInputs(app) ==
  {"sampleId", "latitude", "longitude"} \subseteq DOMAIN app

\* runSolarDetection returns to processApplication, which writes the status
\* 'ai_completed' and cleanAiResult and returns.
ProcessApplicationComplete(r) ==
  /\ r \in runs
  /\ r.pc = "detect"
  /\ HasDetectionInputs(r.app)
  /\ \E d \in ServiceDraws :
       db' = [db EXCEPT ![r.applicationId] =
                Update(@, CompletedFields(
                  CleanAiResult(RunSolarDetection(r.app.sampleId,
                                                  r.app.latitude,
                                                  r.app.longitude, d),
                                d.today)))]
  /\ runs' = (runs \ {r}) \cup {[r EXCEPT !.pc = "returned"]}
  /\ UNCHANGED <<started, officers>>
  /\ UNCHANGED <<engineVars, concurrentVars, workflowVars, exportVars>>
  /\ UNCHANGED <<authVars, fetcherVars>>

\* The last update of processApplication is rejected by the database: the
\* promise rejects, nothing is written and processApplication throws.
ProcessApplicationWriteFails(r) ==
  /\ r \in runs
  /\ r.pc = "detect"
  /\ runs' = (runs \ {r}) \cup
       {[r EXCEPT !.pc = "thrown", !.error = "update rejected"]}
  /\ UNCHANGED <<db, started, officers>>
  /\ UNCHANGED <<engineVars, concurrentVars, workflowVars, exportVars>>
  /\ UNCHANGED <<authVars, fetcherVars>>

\* A call of processApplication that has returned or thrown.
Settled(r) == r.pc \in {"returned", "thrown"}

(***************************************************************************)
(* The service called directly, with any applicationId.                    *)
(***************************************************************************)
\* createApplication(userId, userName, userEmail, data).
ServiceCreate ==
  /\ FreshKeys # {}
  /\ \E data \in SubmittedData :
       db' = [db EXCEPT ![LeastOf(FreshKeys)] = NewApplication(data)]
  /\ UNCHANGED <<runs, started, officers>>
  /\ UNCHANGED <<engineVars, concurrentVars, workflowVars, exportVars>>
  /\ UNCHANGED <<authVars, fetcherVars>>

\* processApplication(applicationId) is called.
ServiceProcess(applicationId) ==
  /\ started < MaxRuns
  /\ runs' = runs \cup {NewRun("service", applicationId)}
  /\ started' = started + 1
  /\ UNCHANGED <<db, officers>>
  /\ UNCHANGED <<engineVars, concurrentVars, workflowVars, exportVars>>
  /\ UNCHANGED <<authVars, fetcherVars>>

\* reviewApplication(applicationId, status, officerId, notes).
ServiceReview(applicationId) ==
  /\ \E status \in {"approved", "rejected"}, officerId \in OfficerIds,
        notes \in ReviewNotes, now \in ReviewTimes :
       db' = [db EXCEPT ![applicationId] =
                Update(@, ReviewFields(status, officerId, notes, now))]
  /\ UNCHANGED <<runs, started, officers>>
  /\ UNCHANGED <<engineVars, concurrentVars, workflowVars, exportVars>>
  /\ UNCHANGED <<authVars, fetcherVars>>

NextService ==
  \/ ServiceCreate
  \/ \E applicationId \in AppKeys : ServiceProcess(applicationId)
  \/ \E applicationId \in AppKeys : ServiceReview(applicationId)
  \/ \E r \in runs : ProcessApplicationGet(r)
  \/ \E r \in runs : ProcessApplicationComplete(r)
  \/ \E r \in runs : ProcessApplicationWriteFails(r)

SpecService == Init /\ [][NextService]_vars


(***************************************************************************)
(* The service as the pages call it: confirmSubmit of the Apply page       *)
(* creates an application and processes it; an officer selects an          *)
(* application from the live list, which copies it into selectedApp, and   *)
(* the buttons shown are decided from that copy.                           *)
(***************************************************************************)
\* What an officer's dashboard holds, with one field replaced.
WithOfficer(o, field, value) ==
  [officers EXCEPT ![o] = [k \in DOMAIN @ |->
                             IF k = field THEN value ELSE @[k]]]

\* The 'Approve' and 'Reject' buttons shown whatever selectedApp holds.
ReviewVisibleAlways(selectedApp) == selectedApp.id # 0

\* The 'Approve' and 'Reject' buttons are rendered:
\* selectedApp.status === 'ai_completed'.
ReviewVisible(selectedApp) ==
  selectedApp.id # 0 /\ selectedApp.status = "ai_completed"

\* The 'Run AI Detection' button is rendered:
\* selectedApp.status === 'pending'.
RunAIVisible(selectedApp) ==
  selectedApp.id # 0 /\ selectedApp.status = "pending"

\* confirmSubmit: createApplication stores the form and
\* processApplication(appId) is called.
ApplyConfirmSubmit ==
  /\ FreshKeys # {}
  /\ started < MaxRuns
  /\ \E data \in SubmittedData :
       db' = [db EXCEPT ![LeastOf(FreshKeys)] = NewApplication(data)]
  /\ runs' = runs \cup {NewRun("apply", LeastOf(FreshKeys))}
  /\ started' = started + 1
  /\ UNCHANGED officers
  /\ UNCHANGED <<engineVars, concurrentVars, workflowVars, exportVars>>
  /\ UNCHANGED <<authVars, fetcherVars>>

\* confirmSubmit after processApplication returned or threw: a toast, and
\* the page is left or shows the error.
ApplyFinally(r) ==
  /\ r \in runs
  /\ r.caller = "apply"
  /\ Settled(r)
  /\ runs' = runs \ {r}
  /\ UNCHANGED <<db, started, officers>>
  /\ UNCHANGED <<engineVars, concurrentVars, workflowVars, exportVars>>
  /\ UNCHANGED <<authVars, fetcherVars>>

\* onClick of a row of the list: setSelectedApp(app), a copy of the
\* application as the list holds it at that moment.
SelectApp(o, k) ==
  /\ SnapshotExists(db[k])
  /\ officers' = WithOfficer(o, "selectedApp",
                             [id |-> k, status |-> db[k].status])
  /\ UNCHANGED <<db, runs, started>>
  /\ UNCHANGED <<engineVars, concurrentVars, workflowVars, exportVars>>
  /\ UNCHANGED <<authVars, fetcherVars>>

\* handleRunAI(selectedApp.id) up to its await: the button is shown and
\* not disabled.
HandleRunAI(o) ==
  /\ RunAIVisible(officers[o].selectedApp)
  /\ officers[o].processingId # officers[o].selectedApp.id
  /\ started < MaxRuns
  /\ runs' = runs \cup {NewRun(o, officers[o].selectedApp.id)}
  /\ started' = started + 1
  /\ officers' = WithOfficer(o, "processingId", officers[o].selectedApp.id)
  /\ UNCHANGED db
  /\ UNCHANGED <<engineVars, concurrentVars, workflowVars, exportVars>>
  /\ UNCHANGED <<authVars, fetcherVars>>

\* handleRunAI after processApplication returned or threw: a toast and
\* setProcessingId(null).
HandleRunAIFinally(o, r) ==
  /\ r \in runs
  /\ r.caller = o
  /\ Settled(r)
  /\ runs' = runs \ {r}
  /\ officers' = WithOfficer(o, "processingId", 0)
  /\ UNCHANGED <<db, started>>
  /\ UNCHANGED <<engineVars, concurrentVars, workflowVars, exportVars>>
  /\ UNCHANGED <<authVars, fetcherVars>>

\* handleReview(selectedApp.id, status) up to its await: reviewApplication
\* writes the decision; the buttons pass no notes, so officerNotes is ''.
HandleReview(o, status) ==
  /\ ReviewVisible(officers[o].selectedApp)
  /\ officers[o].reviewingId # officers[o].selectedApp.id
  /\ \E now \in ReviewTimes :
       db' = [db EXCEPT ![officers[o].selectedApp.id] =
                Update(@, ReviewFields(status, o, "", now))]
  /\ officers' = WithOfficer(o, "reviewingId", officers[o].selectedApp.id)
  /\ UNCHANGED <<runs, started>>
  /\ UNCHANGED <<engineVars, concurrentVars, workflowVars, exportVars>>
  /\ UNCHANGED <<authVars, fetcherVars>>

\* handleReview after reviewApplication returned: setSelectedApp(null) and
\* setReviewingId(null).
HandleReviewFinally(o) ==
  /\ officers[o].reviewingId # 0
  /\ officers' = [officers EXCEPT ![o] =
                    [selectedApp |-> NoSelection,
                     processingId |-> @.processingId,
                     reviewingId |-> 0]]
  /\ UNCHANGED <<db, runs, started>>
  /\ UNCHANGED <<engineVars, concurrentVars, workflowVars, exportVars>>
  /\ UNCHANGED <<authVars, fetcherVars>>

\* A call of processApplication takes its next step.
ProcessApplicationStep ==
  \/ \E r \in runs : ProcessApplicationGet(r)
  \/ \E r \in runs : ProcessApplicationComplete(r)
  \/ \E r \in runs : ProcessApplicationWriteFails(r)

NextDashboard ==
  \/ ApplyConfirmSubmit
  \/ \E r \in runs : ApplyFinally(r)
  \/ \E o \in OfficerIds, k \in AppKeys : SelectApp(o, k)
  \/ \E o \in OfficerIds : HandleRunAI(o)
  \/ \E o \in OfficerIds, r \in runs : HandleRunAIFinally(o, r)
  \/ \E o \in OfficerIds, status \in {"approved", "rejected"} :
       HandleReview(o, status)
  \/ \E o \in OfficerIds : HandleReviewFinally(o)
  \/ ProcessApplicationStep

SpecDashboard == Init /\ [][NextDashboard]_vars

\* Every call of processApplication that has not settled takes its next
\* step: the database answers get() and update(), and the timer of
\* runSolarDetection fires.
SpecDashboardLive == SpecDashboard /\ WF_vars(ProcessApplicationStep)


(***************************************************************************)
(* src/src/contexts/AuthContext.tsx: signUp and the onAuthStateChanged     *)
(* listener, for one new account.  usersDb is the node users/<uid>.        *)
(***************************************************************************)
\* The arguments of signUp; the password plays no part after the account
\* is created.
SignUpEmails ==
  {<<"a", "s", "h", "a", "@", "x", ".", "i", "n">>,
   <<"@", "x", ".", "i", "n">>}
SignUpNames == {<<"A", "s", "h", "a">>, <<"a", "s", "h", "a">>}
SignUpRoles == {"user", "officer"}
SignUpRegions == {"", "north"}

\* result.user.uid of the account created.
NewUid == "uid1"

\* new Date().toISOString() when a profile is built.
ProfileTimes == {"2025-01-15T00:00:00.000Z"}

\* The profile signUp builds from its arguments.
SignUpProfile(email, name, role, region, now) ==
  [uid |-> NewUid, email |-> email, name |-> name, role |-> role,
   region |-> region, createdAt |-> now]

\* firebaseUser.displayName || firebaseUser.email?.split('@')[0] || 'User'
\* for an account created by email and password, which has no displayName.
DefaultName(email) ==
  IF Split(email, "@")[1] # <<>> THEN Split(email, "@")[1]
  ELSE <<"U", "s", "e", "r">>

\* The default profile the listener builds when it finds none stored.
DefaultProfile(email, now) ==
  [uid |-> NewUid, email |-> email, name |-> DefaultName(email),
   role |-> "user", region |-> "", createdAt |-> now]

\* signUp(email, password, name, role, region) is called:
\* createUserWithEmailAndPassword is awaited.
SignUp ==
  /\ signUpCall.pc = "idle"
  /\ \E email \in SignUpEmails, name \in SignUpNames, role \in SignUpRoles,
        region \in SignUpRegions :
       signUpCall' = [pc |-> "creating", email |-> email, name |-> name,
                      role |-> role, region |-> region]
  /\ UNCHANGED <<usersDb, userProfile, listenerCall>>
  /\ UNCHANGED <<engineVars, concurrentVars, workflowVars, exportVars>>
  /\ UNCHANGED <<serviceVars, fetcherVars>>

\* The account is created: onAuthStateChanged calls the listener with the
\* new user, which awaits get(profileRef), and signUp goes on to build its
\* profile and await set().
AccountCreated ==
  /\ signUpCall.pc = "creating"
  /\ \E now \in ProfileTimes :
       signUpCall' =
         [pc |-> "set",
          email |-> signUpCall.email, name |-> signUpCall.name,
          role |-> signUpCall.role, region |-> signUpCall.region,
          profile |-> SignUpProfile(signUpCall.email, signUpCall.name,
                                    signUpCall.role, signUpCall.region,
                                    now)]
  /\ listenerCall' = [pc |-> "get", email |-> signUpCall.email]
  /\ UNCHANGED <<usersDb, userProfile>>
  /\ UNCHANGED <<engineVars, concurrentVars, workflowVars, exportVars>>
  /\ UNCHANGED <<serviceVars, fetcherVars>>

\* The database applies signUp's set(ref(database, users/uid), profile).
SignUpSet ==
  /\ signUpCall.pc = "set"
  /\ usersDb' = signUpCall.profile
  /\ signUpCall' = [signUpCall EXCEPT !.pc = "written"]
  /\ UNCHANGED <<userProfile, listenerCall>>
  /\ UNCHANGED <<engineVars, concurrentVars, workflowVars, exportVars>>
  /\ UNCHANGED <<serviceVars, fetcherVars>>

\* signUp's set() resolves: setUserProfile(profile), and signUp returns.
SignUpReturns ==
  /\ signUpCall.pc = "written"
  /\ userProfile' = signUpCall.profile
  /\ signUpCall' = [signUpCall EXCEPT !.pc = "done"]
  /\ UNCHANGED <<usersDb, listenerCall>>
  /\ UNCHANGED <<engineVars, concurrentVars, workflowVars, exportVars>>
  /\ UNCHANGED <<serviceVars, fetcherVars>>

\* The listener's get(profileRef) is answered: a profile found is put in
\* userProfile; when none is found the default profile is built and set()
\* is awaited.
ListenerGet ==
  /\ listenerCall.pc = "get"
  /\ IF SnapshotExists(usersDb)
     THEN /\ userProfile' = usersDb
          /\ listenerCall' = [listenerCall EXCEPT !.pc = "done"]
     ELSE /\ \E now \in ProfileTimes :
               listenerCall' =
                 [pc |-> "set", email |-> listenerCall.email,
                  defaultProfile |-> DefaultProfile(listenerCall.email, now)]
          /\ UNCHANGED userProfile
  /\ UNCHANGED <<usersDb, signUpCall>>
  /\ UNCHANGED <<engineVars, concurrentVars, workflowVars, exportVars>>
  /\ UNCHANGED <<serviceVars, fetcherVars>>

\* The database applies the listener's set(profileRef, defaultProfile).
ListenerSet ==
  /\ listenerCall.pc = "set"
  /\ usersDb' = listenerCall.defaultProfile
  /\ listenerCall' = [listenerCall EXCEPT !.pc = "written"]
  /\ UNCHANGED <<userProfile, signUpCall>>
  /\ UNCHANGED <<engineVars, concurrentVars, workflowVars, exportVars>>
  /\ UNCHANGED <<serviceVars, fetcherVars>>

\* The listener's set() resolves: setUserProfile(defaultProfile).
ListenerReturns ==
  /\ listenerCall.pc = "written"
  /\ userProfile' = listenerCall.defaultProfile
  /\ listenerCall' = [listenerCall EXCEPT !.pc = "done"]
  /\ UNCHANGED <<usersDb, signUpCall>>
  /\ UNCHANGED <<engineVars, concurrentVars, workflowVars, exportVars>>
  /\ UNCHANGED <<serviceVars, fetcherVars>>

NextAuth ==
  \/ SignUp
  \/ AccountCreated
  \/ SignUpSet
  \/ SignUpReturns
  \/ ListenerGet
  \/ ListenerSet
  \/ ListenerReturns

SpecAuth == Init /\ [][NextAuth]_vars


(***************************************************************************)
(* src/src/components/SatelliteImageFetcher.tsx: fetchImage,               *)
(* handleZoomChange and the two effects, with a Mapbox token configured.   *)
(* A prop of null is 0, which the component's tests (!latitude) treat the  *)
(* same way.                                                               *)
(***************************************************************************)
\* hasToken: a token is stored, so useState(hasMapboxToken()) is true.
HasToken == TRUE

\* The coordinates the parent passes as props.
FetcherCoords == {<<129716, 775946>>, <<285000, 772000>>}

\* getSatelliteImageUrl({latitude, longitude, zoom, width: 640, height:
\* 640}): null for coordinates out of range, else the URL, of which the
\* coordinates and the zoom are the parts that vary.
GetSatelliteImageUrl(la, lo, z) ==
  IF la < -900000 \/ la > 900000 \/ lo < -1800000 \/ lo > 1800000
  THEN Null
  ELSE [longitude |-> lo, latitude |-> la, zoom |-> z]

\* canFetch = latitude !== null && longitude !== null && hasToken
CanFetch(la, lo) == la # 0 /\ lo # 0 /\ HasToken

\* fetchImage() of the render with props la, lo and state z, up to its
\* await: nothing without coordinates or token; else setLoading(true) and
\* fetch(url) is awaited, or, without a url, setLoading(false).
FetchImage(la, lo, z) ==
  IF la = 0 \/ lo = 0 \/ ~HasToken
  THEN UNCHANGED <<loading, fetches, fetchCount>>
  ELSE IF GetSatelliteImageUrl(la, lo, z) = Null
  THEN /\ loading' = FALSE
       /\ UNCHANGED <<fetches, fetchCount>>
  ELSE /\ loading' = TRUE
       /\ fetches' = fetches \cup
            {[n |-> fetchCount + 1, url |-> GetSatelliteImageUrl(la, lo, z)]}
       /\ fetchCount' = fetchCount + 1

\* The parent passes new coordinates; the effect on [latitude, longitude,
\* canFetch] calls fetchImage.
CoordinatesChange ==
  /\ fetchCount < MaxFetches
  /\ \E c \in FetcherCoords :
       /\ <<fetcherLat, fetcherLon>> # c
       /\ fetcherLat' = c[1]
       /\ fetcherLon' = c[2]
       /\ IF CanFetch(c[1], c[2])
          THEN FetchImage(c[1], c[2], zoom)
          ELSE UNCHANGED <<loading, fetches, fetchCount>>
  /\ UNCHANGED <<zoom, imageUrl>>
  /\ UNCHANGED <<engineVars, concurrentVars, workflowVars, exportVars>>
  /\ UNCHANGED <<serviceVars, authVars>>

\* The image and its controls are rendered: coordinates and token are
\* there, loading is false and imageUrl is set.
ControlsVisible ==
  /\ HasToken
  /\ fetcherLat # 0
  /\ fetcherLon # 0
  /\ ~loading
  /\ imageUrl # Null

\* Math.min(20, Math.max(14, prev + delta))
ClampZoom(prev, delta) ==
  LET raised == IF prev + delta > 14 THEN prev + delta ELSE 14
  IN  IF raised < 20 THEN raised ELSE 20

\* A zoom button is clicked: handleZoomChange(delta), and when the zoom
\* changed the effect on [zoom] calls fetchImage if imageUrl && canFetch.
\* The '+' button is disabled at zoom >= 20, the '-' button at zoom <= 14.
HandleZoomChange(delta) ==
  /\ ControlsVisible
  /\ IF delta > 0 THEN zoom < 20 ELSE zoom > 14
  /\ fetchCount < MaxFetches
  /\ zoom' = ClampZoom(zoom, delta)
  /\ IF zoom' # zoom /\ imageUrl # Null /\ CanFetch(fetcherLat, fetcherLon)
     THEN FetchImage(fetcherLat, fetcherLon, zoom')
     ELSE UNCHANGED <<loading, fetches, fetchCount>>
  /\ UNCHANGED <<fetcherLat, fetcherLon, imageUrl>>
  /\ UNCHANGED <<engineVars, concurrentVars, workflowVars, exportVars>>
  /\ UNCHANGED <<serviceVars, authVars>>

\* 'Refresh' beside the image or 'Try Again' in its place is clicked:
\* fetchImage().
ClickRefresh ==
  /\ HasToken
  /\ fetcherLat # 0
  /\ fetcherLon # 0
  /\ ~loading
  /\ fetchCount < MaxFetches
  /\ FetchImage(fetcherLat, fetcherLon, zoom)
  /\ UNCHANGED <<fetcherLat, fetcherLon, zoom, imageUrl>>
  /\ UNCHANGED <<engineVars, concurrentVars, workflowVars, exportVars>>
  /\ UNCHANGED <<serviceVars, authVars>>

\* fetch(url) resolves with response.ok: setImageUrl(url), then finally
\* setLoading(false).
FetchResolves(f) ==
  /\ f \in fetches
  /\ imageUrl' = f.url
  /\ loading' = FALSE
  /\ fetches' = fetches \ {f}
  /\ UNCHANGED <<fetcherLat, fetcherLon, zoom, fetchCount>>
  /\ UNCHANGED <<engineVars, concurrentVars, workflowVars, exportVars>>
  /\ UNCHANGED <<serviceVars, authVars>>

\* fetch(url) rejects or resolves without response.ok: the catch shows a
\* toast, then finally setLoading(false).
FetchFails(f) ==
  /\ f \in fetches
  /\ loading' = FALSE
  /\ fetches' = fetches \ {f}
  /\ UNCHANGED <<fetcherLat, fetcherLon, zoom, imageUrl, fetchCount>>
  /\ UNCHANGED <<engineVars, concurrentVars, workflowVars, exportVars>>
  /\ UNCHANGED <<serviceVars, authVars>>

NextFetcher ==
  \/ CoordinatesChange
  \/ \E delta \in {-1, 1} : HandleZoomChange(delta)
  \/ ClickRefresh
  \/ \E f \in fetches : FetchResolves(f)
  \/ \E f \in fetches : FetchFails(f)

SpecFetcher == Init /\ [][NextFetcher]_vars

(***************************************************************************)
(* Properties.                                                             *)
(***************************************************************************)
\* A call of runSolarDetection has returned and result holds what it returned.
Returned == pc \in {"done", "rendered"}

LargeNote == "large installation detected"

\* qc_notes without the note appended after the bucket notes.
BucketNotes(notes) ==
  IF notes # <<>> /\ notes[Len(notes)] = LargeNote
  THEN SubSeq(notes, 1, Len(notes) - 1)
  ELSE notes

\* The row of the QC table for a confidence c given in hundredths.
QcTableRow(c) ==
  IF c > 85 THEN
    [statuses |-> {"VERIFIABLE"},
     notes |-> <<"clear roof view", "distinct module grid detected",
                 "mounting shadows visible">>]
  ELSE IF c > 70 THEN
    [statuses |-> {"VERIFIABLE"},
     notes |-> <<"moderate image quality", "panel array partially visible">>]
  ELSE IF c > 50 THEN
    [statuses |-> {"VERIFIABLE", "NOT_VERIFIABLE"},
     notes |-> <<"low resolution imagery", "partial occlusion detected">>]
  ELSE
    [statuses |-> {"NOT_VERIFIABLE"},
     notes |-> <<"insufficient image quality", "heavy shadow/cloud cover">>]

\* C1: for every result, qc_status and the bucket notes of qc_notes are the
\* row of the QC table selected by the reported (rounded) confidence; a
\* reported confidence of exactly 0.85 carries the 'moderate image quality'
\* notes.
C1_QcFollowsReportedConfidence ==
  Returned =>
    /\ result.qc_status \in QcTableRow(result.confidence).statuses
    /\ BucketNotes(result.qc_notes) = QcTableRow(result.confidence).notes

\* C2: every result with has_solar = false has panel_count_est = 0,
\* pv_area_sqm_est = 0, capacity_kw_est = 0 and bbox_or_mask = "".
C2_NoSolarConsistency ==
  (Returned /\ ~result.has_solar) =>
    /\ result.panel_count_est = 0
    /\ result.pv_area_sqm_est = 0
    /\ result.capacity_kw_est = 0
    /\ result.bbox_or_mask = <<>>

C2_Witness ==
  /\ pc = "done"
  /\ ~result.has_solar
  /\ result.confidence > 0
  /\ result.bbox_or_mask = <<>>

\* The number of ';'-separated box entries of a bbox_or_mask string: none in
\* the empty string.
EntryCount(str) == IF str = <<>> THEN 0 ELSE Len(Split(str, ";"))

\* C3: the number of ';'-separated entries of bbox_or_mask equals
\* panel_count_est when has_solar is true (for every panel count in 4..23),
\* and bbox_or_mask holds no entry otherwise.
C3_BoxCountMatchesPanelCount ==
  Returned =>
    /\ result.has_solar =>
         /\ result.panel_count_est \in 4..23
         /\ EntryCount(result.bbox_or_mask) = result.panel_count_est
    /\ ~result.has_solar => EntryCount(result.bbox_or_mask) = 0

\* A count whose last grid row is partial: 23 boxes on a 5 x 5 grid.
C3_Witness ==
  /\ pc = "done"
  /\ result.has_solar
  /\ result.panel_count_est = 23
  /\ EntryCount(result.bbox_or_mask) = 23

\* round(n * 1.7, 1), in tenths.
ExpectedAreaTenths(n) == MathRound(n * 17, 1)

\* round(area * 180 / 1000, 1) for an area given in tenths, in tenths.
ExpectedCapacityTenths(areaTenths) == MathRound(areaTenths * 180, 1000)

C5_LowConfidenceNotVerifiable ==
  Returned =>
    /\ result.confidence <= 50 =>
         /\ result.qc_status = "NOT_VERIFIABLE"
         /\ result.qc_notes =
              <<"insufficient image quality", "heavy shadow/cloud cover">>
    /\ result.qc_status = "VERIFIABLE" =>
         \A k \in 1..Len(result.qc_notes) :
           result.qc_notes[k] # "insufficient image quality"

C5_Witness ==
  /\ pc = "done"
  /\ result.confidence <= 50
  /\ result.confidence >= 10
  /\ result.qc_status = "NOT_VERIFIABLE"

\* C6: every box generated for a result lies within the 640 x 640 reference
\* frame: 0 <= x, 0 <= y, x + w <= 640 and y + h <= 640.
C6_BoxesInsideFrame ==
  Returned =>
    \A k \in 1..Len(emitted) :
      /\ 0 <= emitted[k].x
      /\ 0 <= emitted[k].y
      /\ emitted[k].x + emitted[k].w <= 640
      /\ emitted[k].y + emitted[k].h <= 640

\* The grammar of one box entry, read off the string itself: '[', four or
\* five comma-separated fields, ']'; the first four fields are runs of
\* digits, the fifth is digits or digits '.' digits.
AllDigits(f) == f # <<>> /\ \A k \in 1..Len(f) : IsDigit(f[k])

IsDecimal(f) ==
  LET parts == Split(f, ".")
  IN  Len(parts) \in {1, 2} /\ \A k \in 1..Len(parts) : AllDigits(parts[k])

Fields(e) == Split(SubSeq(e, 2, Len(e) - 1), ",")

IsBoxEntry(e) ==
  /\ Len(e) >= 2
  /\ e[1] = "["
  /\ e[Len(e)] = "]"
  /\ Len(Fields(e)) \in {4, 5}
  /\ \A k \in 1..4 : AllDigits(Fields(e)[k])
  /\ Len(Fields(e)) = 5 => IsDecimal(Fields(e)[5])

\* A conf field as the engine writes it: 0.82 .. 0.99 with two decimals.
IsEngineConf(f) ==
  /\ Len(f) = 4
  /\ f[1] = "0"
  /\ f[2] = "."
  /\ IsDigit(f[3])
  /\ IsDigit(f[4])
  /\ 10 * DigitValue(f[3]) + DigitValue(f[4]) \in 82..99

\* C7: every box string generated by the engine has the form [x,y,w,h,conf]
\* with x, y, w, h non-negative integers written without sign or fraction
\* and conf a 2-decimal number in [0.82, 0.99]; boxes are joined by ';' with
\* no leading or trailing separator.
C7_BoxGrammar ==
  (Returned /\ result.has_solar) =>
    LET str     == result.bbox_or_mask
        entries == Split(str, ";")
    IN  /\ str # <<>>
        /\ str[1] # ";"
        /\ str[Len(str)] # ";"
        /\ \A k \in 1..Len(entries) :
             /\ IsBoxEntry(entries[k])
             /\ Len(Fields(entries[k])) = 5
             /\ IsEngineConf(Fields(entries[k])[5])

\* A string of several boxes that holds both ends of the conf range.
C7_Witness ==
  /\ pc = "done"
  /\ result.has_solar
  /\ \E j, k \in 1..EntryCount(result.bbox_or_mask) :
       LET entries == Split(result.bbox_or_mask, ";")
       IN  /\ Fields(entries[j])[5] = <<"0", ".", "8", "2">>
           /\ Fields(entries[k])[5] = <<"0", ".", "9", "9">>

\* C8: for every bbox_or_mask produced by the engine for panel count n,
\* parseDetectionBoxes returns exactly n boxes, in the emitted order, with
\* panelId 1..n and with x, y, width, height and confidence equal to the
\* values that were serialized; for the empty string it returns no boxes.
C8_RoundTrip ==
  pc = "rendered" =>
    IF result.bbox_or_mask = <<>> THEN boxes = <<>>
    ELSE /\ Len(boxes) = result.panel_count_est
         /\ Len(emitted) = result.panel_count_est
         /\ \A k \in 1..Len(boxes) :
              /\ boxes[k].panelId = k
              /\ boxes[k].x = emitted[k].x
              /\ boxes[k].y = emitted[k].y
              /\ boxes[k].width = emitted[k].w
              /\ boxes[k].height = emitted[k].h
              /\ 100 * boxes[k].confidence.num =
                   MathRound(100 * emitted[k].conf, ConfDen)
                     * boxes[k].confidence.den

\* 23 boxes parsed back, not all alike.
C8_Witness ==
  /\ pc = "rendered"
  /\ result.has_solar
  /\ Len(boxes) = 23
  /\ boxes[23].panelId = 23
  /\ boxes[1].width # boxes[2].width
  /\ boxes[1].confidence # boxes[2].confidence

\* The entries of the string the overlay was given.
GivenEntries == Split(result.bbox_or_mask, ";")

\* Entry k is a well-formed box and the parser returned it: a box with
\* panelId k and the entry's four integers, whose confidence is the default,
\* in [0.85, 0.99), when the entry carries none.
ReturnedAsBox(k) ==
  \E b \in 1..Len(boxes) :
    /\ boxes[b].panelId = k
    /\ IntToStr(boxes[b].x) = Fields(GivenEntries[k])[1]
    /\ IntToStr(boxes[b].y) = Fields(GivenEntries[k])[2]
    /\ IntToStr(boxes[b].width) = Fields(GivenEntries[k])[3]
    /\ IntToStr(boxes[b].height) = Fields(GivenEntries[k])[4]
    /\ Len(Fields(GivenEntries[k])) = 4 =>
         /\ 85 * boxes[b].confidence.den <= 100 * boxes[b].confidence.num
         /\ 100 * boxes[b].confidence.num < 99 * boxes[b].confidence.den

\* An entry that holds a well-formed box somewhere inside it.
ContainsBox(e) ==
  \E i \in 1..Len(e) : \E j \in i..Len(e) : IsBoxEntry(SubSeq(e, i, j))

\* C9 as stated: a box without conf is returned with its four integers and a
\* default confidence in [0.85, 0.99), and the number of boxes returned equals
\* the number of well-formed entries.
C9_CountIsWellFormedEntries ==
  (pc = "rendered" /\ result.bbox_or_mask # <<>>) =>
    /\ \A k \in 1..Len(GivenEntries) :
         IsBoxEntry(GivenEntries[k]) => ReturnedAsBox(k)
    /\ Len(boxes) =
         Cardinality({k \in 1..Len(GivenEntries) : IsBoxEntry(GivenEntries[k])})

\* C9: a box without conf, [x,y,w,h], is returned with its four integers and
\* a default confidence in [0.85, 0.99), never dropped; the number of boxes
\* returned equals the number of entries that hold a well-formed box, with or
\* without conf, anywhere inside them (the pattern is searched for, so an
\* entry with other text around a box is returned as well).
C9_MissingConfGetsDefault ==
  (pc = "rendered" /\ result.bbox_or_mask # <<>>) =>
    /\ \A k \in 1..Len(GivenEntries) :
         IsBoxEntry(GivenEntries[k]) => ReturnedAsBox(k)
    /\ Len(boxes) =
         Cardinality({k \in 1..Len(GivenEntries) : ContainsBox(GivenEntries[k])})

\* A string with a box without conf next to one with conf, both returned.
C9_Witness ==
  /\ pc = "rendered"
  /\ Len(GivenEntries) = 2
  /\ IsBoxEntry(GivenEntries[1])
  /\ Len(Fields(GivenEntries[1])) = 4
  /\ IsBoxEntry(GivenEntries[2])
  /\ Len(Fields(GivenEntries[2])) = 5
  /\ Len(boxes) = 2
  /\ boxes[1].confidence.den = ConfDen
  /\ boxes[1].confidence.num > 85 * RandDen

\* C10: 'large installation detected' is in qc_notes exactly when has_solar
\* is true and panel_count_est > 10; when present it occurs once and is the
\* last element, after the bucket notes.
C10_LargeInstallationNote ==
  Returned =>
    LET notes == result.qc_notes
        at    == {k \in 1..Len(notes) : notes[k] = LargeNote}
    IN  /\ at # {} <=> (result.has_solar /\ result.panel_count_est > 10)
        /\ at # {} =>
             /\ at = {Len(notes)}
             /\ SubSeq(notes, 1, Len(notes) - 1) \in
                  {QcTableRow(c).notes : c \in {90, 80, 60, 40}}

\* Eleven panels in the 'moderate image quality' bucket.
C10_Witness ==
  /\ pc = "done"
  /\ result.has_solar
  /\ result.panel_count_est = 11
  /\ result.qc_notes = <<"moderate image quality",
                         "panel array partially visible", LargeNote>>

\* C11: the reported confidence is a 2-decimal value in [0,1]; with
\* has_solar it is in [0.75, 0.99], without it in [0.10, 0.40].
C11_ConfidenceRange ==
  Returned =>
    /\ result.confidence \in 0..100
    /\ result.has_solar => result.confidence \in 75..99
    /\ ~result.has_solar => result.confidence \in 10..40

\* The greatest draw with has_solar: 0.75 + 0.999 * 0.24 is reported as 0.99.
C11_Witness ==
  /\ pc = "done"
  /\ result.has_solar
  /\ result.confidence = 99

\* C12: with has_solar, panel_count_est is an integer in [4, 23];
\* panel_count_est is 0 only without has_solar.
C12_PanelCountRange ==
  Returned =>
    /\ result.has_solar => result.panel_count_est \in 4..23
    /\ result.panel_count_est = 0 => ~result.has_solar

C12_Witness ==
  /\ pc = "done"
  /\ result.has_solar
  /\ result.panel_count_est = 23
  /\ result.pv_area_sqm_est = 391

\* C19: capacity_kw_est is pv_area_sqm_est * 190 / 1000 rounded to one
\* decimal (190 W per square metre, as the README states).
C19_CapacityAt190WattPerSqm ==
  Returned =>
    result.capacity_kw_est = MathRound(result.pv_area_sqm_est * 190, 1000)

\* C20: processing_time_ms is the floored duration of the delay the same
\* call waited for, and lies in [2000, 5000).
C20_ProcessingTimeIsDelay ==
  Returned =>
    /\ result.processing_time_ms = delay
    /\ result.processing_time_ms \in 2000..4999

\* The fields of a DetectionResult.
DetectionResultFields ==
  {"sample_id", "lat", "lon", "has_solar", "confidence", "panel_count_est",
   "pv_area_sqm_est", "capacity_kw_est", "qc_status", "qc_notes",
   "bbox_or_mask", "image_metadata", "processing_time_ms"}

\* result is a complete DetectionResult of the call made.
CompleteResult ==
  /\ DOMAIN result = DetectionResultFields
  /\ result.sample_id = sampleId
  /\ result.qc_status \in {"VERIFIABLE", "NOT_VERIFIABLE"}
  /\ result.qc_notes # <<>>
  /\ result.image_metadata.capture_date # ""
  /\ result.processing_time_ms > 0

\* C14: every call of runSolarDetection eventually resolves, once its timer
\* fires, with a complete DetectionResult; it never rejects or throws.
C14_EveryCallResolves ==
  (pc = "waiting") ~> (pc = "done" /\ CompleteResult)

\* A call has resolved without solar, the outcome with the fewest fields set.
C14_Witness ==
  /\ pc = "done"
  /\ CompleteResult
  /\ ~result.has_solar
  /\ result.bbox_or_mask = <<>>

\* The arguments of a call are malformed.
Malformed(id, la, lo) ==
  \/ id = ""
  \/ la \notin -900000..900000
  \/ lo \notin -1800000..1800000

\* C15: a call with malformed input (latitude outside [-90, 90], longitude
\* outside [-180, 180], or an empty sample identifier) produces no
\* DetectionResult.
C15_MalformedInputRejected ==
  Malformed(sampleId, lat, lon) => (pc # "done" /\ result = NoResult)

C13_InputsEchoedAndStored ==
  \A i \in 1..Len(applications) :
    applications[i].aiResult # <<>> =>
      /\ applications[i].aiResult[1].sample_id = applications[i].sampleId
      /\ applications[i].aiResult[1].lat = applications[i].latitude
      /\ applications[i].aiResult[1].lon = applications[i].longitude

\* Two applications have been processed, one with solar and one without,
\* for different samples at different coordinates.
C13_Witness ==
  /\ Len(applications) = 2
  /\ applications[1].status = "ai_completed"
  /\ applications[2].status = "ai_completed"
  /\ applications[1].aiResult[1].has_solar
  /\ ~applications[2].aiResult[1].has_solar
  /\ applications[1].sampleId # applications[2].sampleId
  /\ applications[1].latitude # applications[2].latitude
  /\ applications[1].latitude # applications[1].longitude

SplitOutsideQuotes(s, sep) ==
  LET seps == {i \in 1..Len(s) :
                 /\ s[i] = sep
                 /\ Cardinality({j \in 1..(i - 1) : s[j] = "\""}) % 2 = 0}
      cut  == [k \in 0..(Cardinality(seps) + 1) |->
                 IF k = 0 THEN 0
                 ELSE IF k = Cardinality(seps) + 1 THEN Len(s) + 1
                 ELSE CHOOSE p \in seps :
                        Cardinality({q \in seps : q < p}) = k - 1]
  IN  [k \in 1..(Cardinality(seps) + 1) |->
         SubSeq(s, cut[k - 1] + 1, cut[k] - 1)]

\* The value of a field by CSV rules: a field in quotes stands for what is
\* between them with every doubled quote read as one quote.
FieldValue(f) ==
  IF Len(f) >= 2 /\ f[1] = "\"" /\ f[Len(f)] = "\""
  THEN LET inner == SubSeq(f, 2, Len(f) - 1)
           rank(i) == Cardinality({j \in 1..i : inner[j] = "\""})
           keep == {i \in 1..Len(inner) :
                      inner[i] # "\"" \/ rank(i) % 2 = 1}
       IN  [k \in 1..Cardinality(keep) |->
              inner[CHOOSE p \in keep :
                      Cardinality({q \in keep : q <= p}) = k]]
  ELSE f

\* The values of a record parsed by CSV rules.
RecordValues(record) ==
  LET fields == SplitOutsideQuotes(record, ",")
  IN  [j \in 1..Len(fields) |-> FieldValue(fields[j])]

\* C18: parsing each data row of the export by CSV rules gives one value for
\* every header column, equal to the field it was written from.
C18_ExportPreservesFields ==
  csvContent # <<>> =>
    LET records == SplitOutsideQuotes(csvContent, "\n")
    IN  /\ Len(records) = 1 + Len(exportApps)
        /\ \A k \in 1..Len(exportApps) :
             /\ Len(RecordValues(records[k + 1])) = Len(ExportHeaders)
             /\ RecordValues(records[k + 1]) = RowValues(exportApps[k])

\* Box k (from 0) of the boxes emitted stands in row k \div gridCols and
\* column k % gridCols of the grid g: its x is the floor of the column's
\* position plus a jitter in [-4, 4), its y the floor of the row's position
\* plus a jitter in [-3, 3).
InCell(b, k, gridCols, g) ==
  LET row == k \div gridCols
      col == k % gridCols
      X   == g.startX + col * (g.panelWidth + g.gapX)
      Y   == g.startY + row * (g.panelHeight + g.gapY)
  IN  /\ b.x >= MathFloor(X - 4 * RandDen, RandDen)
      /\ b.x * RandDen < X + 4 * RandDen
      /\ b.y >= MathFloor(Y - 3 * RandDen, RandDen)
      /\ b.y * RandDen < Y + 3 * RandDen

\* C21: the boxes are emitted row by row over a grid of ceil(sqrt(n))
\* columns whose start, panel size and gaps are the same for every box of
\* the call; within a row x grows strictly with the column, and only the
\* last row may be partial.
C21_RowMajorGrid ==
  (Returned /\ result.has_solar) =>
    LET n        == result.panel_count_est
        gridCols == CeilSqrt(n)
    IN  /\ Len(emitted) = n
        /\ \E t \in TapeIds :
             \A k \in 0..(n - 1) : InCell(emitted[k + 1], k, gridCols, Layout(t))
        /\ \A k \in 1..(n - 1) :
             k % gridCols # 0 => emitted[k].x < emitted[k + 1].x

\* Five boxes over three columns: a full row, then a row of two that starts
\* again at the left and lower down.
C21_Witness ==
  /\ pc = "done"
  /\ result.panel_count_est = 5
  /\ Len(emitted) = 5
  /\ emitted[4].x < emitted[3].x
  /\ emitted[4].y > emitted[3].y

\* C29: qc_status is VERIFIABLE exactly when has_solar is true, and the
\* notes of the (0.50, 0.70] branch never appear.
C29_VerifiableIffSolar ==
  Returned =>
    /\ (result.qc_status = "VERIFIABLE") <=> result.has_solar
    /\ \A i \in 1..Len(result.qc_notes) :
         result.qc_notes[i] \notin {"low resolution imagery",
                                    "partial occlusion detected"}

\* A result with solar at the least confidence, 0.75, is VERIFIABLE.
C29_Witness ==
  /\ pc = "done"
  /\ result.has_solar
  /\ result.confidence = 75
  /\ result.qc_status = "VERIFIABLE"

\* The applications stored under 'applications'.
StoredKeys == {k \in AppKeys : SnapshotExists(db[k])}

\* The node carries an aiResult.
HasAiResult(node) == "aiResult" \in DOMAIN node

\* C26: whatever calls of createApplication, processApplication and
\* reviewApplication interleave, a stored application with the status
\* 'ai_completed' carries an aiResult (the status and the result are written
\* in one update), and one with the status 'pending' carries none.
C26_CompletedWithResult ==
  \A k \in StoredKeys :
    /\ db[k].status = "ai_completed" => HasAiResult(db[k])
    /\ db[k].status = "pending" => ~HasAiResult(db[k])

\* A call of processApplication has written 'ai_completed' with its result
\* while another application is still 'pending'.
C26_Witness ==
  /\ \E k \in StoredKeys :
       db[k].status = "ai_completed" /\ HasAiResult(db[k])
  /\ \E k \in StoredKeys : db[k].status = "pending"
  /\ \E r \in runs : r.pc = "returned"

\* C28: a call of processApplication that finds no application stored
\* under its id ends by throwing 'Application not found'; that step writes
\* nothing to the database and the call never reaches runSolarDetection.
C28_NotFoundWritesNothing ==
  [][\A r \in runs :
       (/\ r.pc = "get"
        /\ ~SnapshotExists(db[r.applicationId])
        /\ r \notin runs')
       => /\ db' = db
          /\ [r EXCEPT !.pc = "thrown",
                       !.error = "Application not found"] \in runs'
          /\ ~r.detection]_vars

\* A call for an id that holds no application has thrown.
C28_Witness ==
  \E r \in runs :
    /\ r.pc = "thrown"
    /\ r.error = "Application not found"
    /\ ~SnapshotExists(db[r.applicationId])

\* The statuses the review ends in.
Decided == {"approved", "rejected"}

\* C22: 'approved' and 'rejected' are terminal: no step of a call of
\* processApplication or reviewApplication, however the submissions and
\* the officers' actions interleave, changes the status of an application
\* that has one of them.
C22_DecisionIsTerminal ==
  [][\A k \in StoredKeys :
       db[k].status \in Decided => db'[k].status = db[k].status]_vars

\* C23: an application undergoes at most one detection run: its status
\* never goes from 'ai_completed', 'approved' or 'rejected' back to
\* 'processing'.
C23_NoSecondRun ==
  [][\A k \in StoredKeys :
       db[k].status \in {"ai_completed"} \cup Decided
         => db'[k].status # "processing"]_vars

\* C25: in every state the officers' dashboards and the Apply page reach,
\* an application whose status is 'approved' or 'rejected' has an aiResult
\* stored and a reviewedBy and a reviewedAt that are not empty.
C25_DecidedHasResultAndReviewer ==
  \A k \in StoredKeys :
    db[k].status \in Decided =>
      /\ HasAiResult(db[k])
      /\ db[k].reviewedBy # ""
      /\ db[k].reviewedAt # ""

\* An officer has approved or rejected an application from the dashboard.
C25_Witness ==
  \E k \in StoredKeys, o \in OfficerIds :
    /\ db[k].status \in Decided
    /\ db[k].reviewedBy = o
    /\ officers[o].reviewingId = k

\* The status stored for key k; '' when nothing is stored.
StatusOf(k) == IF SnapshotExists(db[k]) THEN db[k].status ELSE ""

\* The workflow can start processing application k again: an officer's
\* dashboard shows the 'Run AI Detection' button for it, enabled.
CanStartProcessing(k) ==
  \E o \in OfficerIds :
    /\ RunAIVisible(officers[o].selectedApp)
    /\ officers[o].selectedApp.id = k
    /\ officers[o].processingId # k

\* C27: no application stays 'processing' for ever: its status becomes
\* 'ai_completed', or, when the run fails, the application is left where
\* the Apply page or an officer's dashboard can start processing it again.
C27_ProcessingEnds ==
  \A k \in AppKeys :
    (StatusOf(k) = "processing")
      ~> (StatusOf(k) = "ai_completed" \/ CanStartProcessing(k))

\* C24: once signUp(email, password, name, role, region) has returned, the
\* profile stored at users/<uid> and the userProfile in memory both carry
\* the role and the name given, however the steps of signUp and of the
\* onAuthStateChanged listener interleave.
C24_SignUpProfileKept ==
  signUpCall.pc = "done" =>
    /\ usersDb.role = signUpCall.role
    /\ usersDb.name = signUpCall.name
    /\ userProfile.role = signUpCall.role
    /\ userProfile.name = signUpCall.name

\* C30: the zoom of the SatelliteImageFetcher stays within 14..20, and
\* once no fetch is outstanding the image displayed is the one built for
\* the current zoom and coordinates, in whatever order overlapping fetches
\* resolved.
C30_ImageMatchesZoomAndCoordinates ==
  /\ zoom \in 14..20
  /\ (fetches = {} /\ imageUrl # Null) =>
       imageUrl = GetSatelliteImageUrl(fetcherLat, fetcherLon, zoom)

====
